---- MODULE Spec2Model ----
(***************************************************************************)
(* Model of the props proxy (src/main.py): the file-backed board store     *)
(* (save_props, load_file_props_raw_or_empty, get_current_props), the      *)
(* upload endpoint POST /update-props (update_props with its two           *)
(* normalizers) and the read endpoint GET /props.json (props_json).        *)
(*                                                                         *)
(* Text values that the code transforms (sport keys, labels, slugs) are    *)
(* sequences of one-character strings, so that strip / lower / re.sub are  *)
(* computed and not assumed.                                               *)
(***************************************************************************)
EXTENDS Integers, Sequences, FiniteSets, TLC

VARIABLES
    primary,    \* DATA_FILE   (props.json)
    backup,     \* BACKUP_FILE (props_backup.json)
    clock,      \* datetime.now(timezone.utc), in whole hours
    th,         \* per request slot: program counter and local variables
    faults,     \* history: number of file writes that raised OSError so far
    latest,     \* history: per sport slug, the batch of the last upload answered ok
    last,       \* history: the HTTP response of the request that completed most recently
    clobbered   \* history: a pruning read saved a list it had loaded before a later merge write

vars == <<primary, backup, clock, th, faults, latest, last, clobbered>>

-----------------------------------------------------------------------------
(* Bounds of the model *)

\* the clock runs over 0 .. MaxClock
MaxClock == 2
\* at most this many file writes raise in one behaviour
MaxFaults == 1

-----------------------------------------------------------------------------
(* Text helpers: Python str methods on sequences of characters *)

UpperChars == <<"A", "B", "C", "D", "E", "F", "G", "H", "I", "J", "K", "L", "M",
                "N", "O", "P", "Q", "R", "S", "T", "U", "V", "W", "X", "Y", "Z">>
LowerChars == <<"a", "b", "c", "d", "e", "f", "g", "h", "i", "j", "k", "l", "m",
                "n", "o", "p", "q", "r", "s", "t", "u", "v", "w", "x", "y", "z">>
DigitChars == {"0", "1", "2", "3", "4", "5", "6", "7", "8", "9"}
SpaceChars == {" ", "\t", "\n"}

\* str.lower() on one character
LowerChar(c) ==
    IF \E i \in 1..26 : UpperChars[i] = c
    THEN LowerChars[CHOOSE i \in 1..26 : UpperChars[i] = c]
    ELSE c

\* str.lower()
Lower(s) == [i \in 1..Len(s) |-> LowerChar(s[i])]

\* str.upper() on one character
UpperChar(c) ==
    IF \E i \in 1..26 : LowerChars[i] = c
    THEN UpperChars[CHOOSE i \in 1..26 : LowerChars[i] = c]
    ELSE c

\* str.upper()
Upper(s) == [i \in 1..Len(s) |-> UpperChar(s[i])]

RECURSIVE LStrip(_, _)
LStrip(s, drop) ==
    IF s # <<>> /\ Head(s) \in drop THEN LStrip(Tail(s), drop) ELSE s

RECURSIVE RStrip(_, _)
RStrip(s, drop) ==
    IF s # <<>> /\ s[Len(s)] \in drop THEN RStrip(SubSeq(s, 1, Len(s) - 1), drop) ELSE s

\* str.strip() and str.strip(chars)
Strip(s) == RStrip(LStrip(s, SpaceChars), SpaceChars)
StripChars(s, drop) == RStrip(LStrip(s, drop), drop)

\* the character class [a-z0-9]
IsSlugChar(c) == (\E i \in 1..26 : LowerChars[i] = c) \/ c \in DigitChars

\* re.sub(r"[^a-z0-9]+", "-", s): every maximal run outside the class becomes one hyphen
RECURSIVE SubNonSlugRuns(_)
SubNonSlugRuns(s) ==
    IF s = <<>> THEN <<>>
    ELSE IF IsSlugChar(Head(s)) THEN <<Head(s)>> \o SubNonSlugRuns(Tail(s))
    ELSE IF Len(s) > 1 /\ ~IsSlugChar(s[2]) THEN SubNonSlugRuns(Tail(s))
    ELSE <<"-">> \o SubNonSlugRuns(Tail(s))

\* re.sub(r"-+", "-", s)
RECURSIVE SubHyphenRuns(_)
SubHyphenRuns(s) ==
    IF s = <<>> THEN <<>>
    ELSE IF Head(s) = "-" /\ Len(s) > 1 /\ s[2] = "-" THEN SubHyphenRuns(Tail(s))
    ELSE <<Head(s)>> \o SubHyphenRuns(Tail(s))

\* an optional text value: None, or a string
None == [some |-> FALSE, v |-> <<>>]
Some(s) == [some |-> TRUE, v |-> s]
\* Python's (x or ""): None and "" both give ""
OrEmpty(o) == IF o.some THEN o.v ELSE <<>>

-----------------------------------------------------------------------------
(* Sport registry *)

nfl == <<"n", "f", "l">>
nba == <<"n", "b", "a">>
nhl == <<"n", "h", "l">>
cbb == <<"c", "b", "b">>
cfb == <<"c", "f", "b">>
soccer == <<"s", "o", "c", "c", "e", "r">>
tennis == <<"t", "e", "n", "n", "i", "s">>
cs2 == <<"c", "s", "2">>
extras == <<"e", "x", "t", "r", "a", "s">>
unknown == <<"u", "n", "k", "n", "o", "w", "n">>
ExtrasName == <<"E", "x", "t", "r", "a", "s">>

SportKeys == {nfl, nba, nhl, cbb, cfb, soccer, tennis, cs2}

SPORTS ==
    [k \in SportKeys |->
        CASE k = nfl -> [name |-> <<"N", "F", "L">>, league_id |-> <<"9">>]
          [] k = nba -> [name |-> <<"N", "B", "A">>, league_id |-> <<"7">>]
          [] k = nhl -> [name |-> <<"N", "H", "L">>, league_id |-> <<"8">>]
          [] k = cbb -> [name |-> <<"C", "B", "B">>, league_id |-> <<"2", "0">>]
          [] k = cfb -> [name |-> <<"C", "F", "B">>, league_id |-> <<"1", "5">>]
          [] k = soccer -> [name |-> <<"S", "o", "c", "c", "e", "r">>, league_id |-> <<"8", "2">>]
          [] k = tennis -> [name |-> <<"T", "e", "n", "n", "i", "s">>, league_id |-> <<"5">>]
          [] k = cs2 -> [name |-> <<"C", "S", "2">>, league_id |-> <<"2", "6", "5">>]]

UNDERDOG_SPORT_IDS ==
    [k \in SportKeys |->
        CASE k = nfl -> <<"N", "F", "L">>
          [] k = nba -> <<"N", "B", "A">>
          [] k = nhl -> <<"N", "H", "L">>
          [] k = cbb -> <<"C", "B", "B">>
          [] k = cfb -> <<"C", "F", "B">>
          [] k = soccer -> <<"F", "I", "F", "A">>
          [] k = tennis -> <<"T", "E", "N", "N", "I", "S">>
          [] k = cs2 -> <<"C", "S">>]

\* the derivation without the removal of leading and trailing hyphens
sport_slug_from_label_KeepsHyphens(label) ==
    LET s1 == Lower(Strip(label))
        s2 == SubNonSlugRuns(s1)
        s3 == SubHyphenRuns(s2)
    IN  IF s3 # <<>> THEN s3 ELSE unknown

sport_slug_from_label(label) ==
    LET s1 == Lower(Strip(label))
        s2 == SubNonSlugRuns(s1)
        s3 == StripChars(SubHyphenRuns(s2), {"-"})
    IN  IF s3 # <<>> THEN s3 ELSE unknown

get_prop_sport_slug(p) ==
    LET slug == Lower(Strip(p.sport_slug))
        label == Strip(p.sport)
    IN  IF slug # <<>> THEN slug
        ELSE IF label = <<>> THEN <<>>
        ELSE IF \E k \in SportKeys : Lower(SPORTS[k].name) = Lower(label)
             THEN CHOOSE k \in SportKeys : Lower(SPORTS[k].name) = Lower(label)
        ELSE sport_slug_from_label(label)

-----------------------------------------------------------------------------
(* game_time values and their parsing *)

\* A game_time as it is stored: absent (None), or a string that is empty, is not an
\* ISO-8601 timestamp, or is one: wall-clock hour `wall` with suffix `tz`
\* ("Z", "" for no offset, "+01:00", "-01:00").
NoGameTime == [kind |-> "none", wall |-> 0, tz |-> ""]
EmptyGameTime == [kind |-> "empty", wall |-> 0, tz |-> ""]
TextGameTime == [kind |-> "text", wall |-> 0, tz |-> ""]
IsoGameTime(w, z) == [kind |-> "iso", wall |-> w, tz |-> z]

\* the UTC offset, in hours, that datetime.fromisoformat reads from the suffix
OffsetHours(z) ==
    CASE z = "+00:00" -> 0
      [] z = "+01:00" -> 1
      [] z = "-01:00" -> 0 - 1

NoInstant == [ok |-> FALSE, t |-> 0]

_parse_game_time(value) ==
    IF value.kind \in {"none", "empty"} THEN NoInstant
    ELSE IF value.kind # "iso" THEN NoInstant
    ELSE LET z == IF value.tz = "Z" THEN "+00:00" ELSE value.tz
         IN  IF z = "" THEN [ok |-> TRUE, t |-> value.wall]
             ELSE [ok |-> TRUE, t |-> value.wall - OffsetHours(z)]

-----------------------------------------------------------------------------
(* The two board files *)

\* A file is absent, holds text that json.load rejects (it was opened for writing and
\* not yet, or never, filled), or holds a JSON list of records.
Absent == [st |-> "absent", data |-> <<>>]
Torn == [st |-> "torn", data |-> <<>>]
Holding(props) == [st |-> "ok", data |-> props]

\* json.dumps(props) as written by write_text, json.load as read back
save_text(props) == Holding(props)

\* the loader reading the backup file first
load_file_props_raw_or_empty_BackupFirst(data_file, backup_file) ==
    IF backup_file.st = "ok" THEN backup_file.data
    ELSE IF data_file.st = "ok" THEN data_file.data
    ELSE <<>>

load_file_props_raw_or_empty(data_file, backup_file) ==
    IF data_file.st = "ok" THEN data_file.data
    ELSE IF backup_file.st = "ok" THEN backup_file.data
    ELSE <<>>

\* the test of get_current_props that keeps record p at instant now
KeepsRecord_DropsEqualNow(p, now) ==
    LET gt == _parse_game_time(p.game_time)
    IN  ~gt.ok \/ gt.t > now

KeepsRecord_DropsUnparsed(p, now) ==
    LET gt == _parse_game_time(p.game_time)
    IN  gt.ok /\ gt.t >= now

KeepsRecord(p, now) ==
    LET gt == _parse_game_time(p.game_time)
    IN  ~gt.ok \/ gt.t >= now

\* the list built with the game_time of every kept record cleared
Filtered_Retimed(raw, now) ==
    LET kept == SelectSeq(raw, LAMBDA p : KeepsRecord(p, now))
    IN  [i \in 1..Len(kept) |-> [kept[i] EXCEPT !.game_time = NoGameTime]]

\* the list `filtered` that get_current_props builds from `raw`
Filtered(raw, now) == SelectSeq(raw, LAMBDA p : KeepsRecord(p, now))

\* a flag that is set whenever a list was loaded
Changed_WhenLoaded(raw, now) == raw # <<>>

\* the flag `changed` of get_current_props
Changed(raw, now) == \E i \in 1..Len(raw) : ~KeepsRecord(raw[i], now)

\* what get_current_props returns
CurrentProps_ReturnsLoaded(raw, filtered) == raw

CurrentProps(raw, filtered) == filtered

-----------------------------------------------------------------------------
(* Upload requests and their normalization *)

\* a JSON number that may be absent, and what float() makes of a JSON value
NoNumber == [some |-> FALSE, n |-> 0]
Number(n) == [some |-> TRUE, n |-> n]

\* the line of an entry (line_score, stat_value): absent, a JSON number, a string
\* that float() reads as a number, or a string that float() rejects
AbsentLine == [kind |-> "absent", n |-> 0]
NumberLine(n) == [kind |-> "number", n |-> n]
NumericTextLine(n) == [kind |-> "numeric_text", n |-> n]
TextLine == [kind |-> "text", n |-> 0]

\* float(value), None where it is not called or raises
ToFloat(line) ==
    IF line.kind \in {"number", "numeric_text"} THEN Number(line.n) ELSE NoNumber

\* str(n) of a natural number
RECURSIVE NatText(_)
NatText(n) ==
    IF n < 10 THEN <<ToString(n)>> ELSE NatText(n \div 10) \o <<ToString(n % 10)>>

\* One entry of raw["data"] (PrizePicks) or raw["over_under_lines"] with its game
\* (Underdog): its id, the start time of its game, the league id of its league
\* relationship / the sport id of its game (<<>> when it carries none), the
\* league_id attribute (a JSON number), its line, stat and player name, the status
\* of an Underdog line, its attributes odds_Type, odds_type, oddsType and tier and the
\* title of its over_under (all None unless set), and its shape; the player of an Underdog line is the first
\* non-empty selection_header of its options:
\*   "object"      a JSON object whose attributes and relationships are objects
\*   "null_attrs"  attributes (over_under) is null
\*   "bad_attrs"   attributes (over_under) is a non-empty string
\*   "null_rel"    relationships is null
\*   "bad_rel"     relationships is a non-empty string
\*   "not_object"  the entry itself is null
RowOf(id, gt, lid, league_id, shape, line, stat, player, status) ==
    [id |-> id, gt |-> gt, lid |-> lid, league_id |-> league_id, shape |-> shape,
     line |-> line, stat |-> stat, player |-> player, status |-> status,
     odds_Type |-> None, odds_type |-> None, oddsType |-> None, tier |-> None,
     title |-> None]

\* player names
Ann == <<"A", "n", "n">>
Bob == <<"B", "o", "b">>

\* a well-formed entry
Row(id, gt, lid) ==
    RowOf(id, gt, lid, NoNumber, "object", NumberLine(5), "Points", Ann, "")

\* raw: not a JSON object, or an object that has list-typed data and included (pp),
\* and/or the keys over_under_lines and games (ud)
NotObject == [isdict |-> FALSE, pp |-> FALSE, ud |-> FALSE, rows |-> <<>>]
OtherObject == [isdict |-> TRUE, pp |-> FALSE, ud |-> FALSE, rows |-> <<>>]
PrizePicksRaw(rows) == [isdict |-> TRUE, pp |-> TRUE, ud |-> FALSE, rows |-> rows]
UnderdogRaw(rows) == [isdict |-> TRUE, pp |-> FALSE, ud |-> TRUE, rows |-> rows]

\* the tiers of a prop
standard == <<"s", "t", "a", "n", "d", "a", "r", "d">>
goblin == <<"g", "o", "b", "l", "i", "n">>
demon == <<"d", "e", "m", "o", "n">>
ALLOWED_TIERS == {standard, goblin, demon}

\* Python's (sub in s) for strings
Contains(s, sub) ==
    \E i \in 0..(Len(s) - Len(sub)) : SubSeq(s, i + 1, i + Len(sub)) = sub

\* (attrs.get("odds_Type") or attrs.get("odds_type") or attrs.get("oddsType")
\*  or attrs.get("tier")), as a string that is empty when all are
RawTier(attrs) ==
    IF OrEmpty(attrs.odds_Type) # <<>> THEN attrs.odds_Type.v
    ELSE IF OrEmpty(attrs.odds_type) # <<>> THEN attrs.odds_type.v
    ELSE IF OrEmpty(attrs.oddsType) # <<>> THEN attrs.oddsType.v
    ELSE OrEmpty(attrs.tier)

\* the tier read from the attributes of a PrizePicks projection
_extract_tier_from_attrs_DemonFirst(attrs) ==
    IF RawTier(attrs) = <<>> THEN standard
    ELSE LET t == Lower(Strip(RawTier(attrs)))
         IN  IF Contains(t, demon) THEN demon
             ELSE IF Contains(t, goblin) THEN goblin
             ELSE standard

_extract_tier_from_attrs(attrs) ==
    IF RawTier(attrs) = <<>> THEN standard
    ELSE LET t == Lower(Strip(RawTier(attrs)))
         IN  IF Contains(t, goblin) THEN goblin
             ELSE IF Contains(t, demon) THEN demon
             ELSE standard

\* a record of the board; an Underdog record always has tier "standard"
Prop(id, source, name, slug, gt, player, stat, line) ==
    [id |-> id, source |-> source, sport |-> name, sport_slug |-> slug, game_time |-> gt,
     player |-> player, stat |-> stat, line |-> line,
     tier |-> standard]

\* a normalizer's outcome: a ValueError, another exception, or the list of props
Raised == [err |-> TRUE, crash |-> FALSE, props |-> <<>>]
Crashed == [err |-> FALSE, crash |-> TRUE, props |-> <<>>]
Returned(props) == [err |-> FALSE, crash |-> FALSE, props |-> props]

\* normalize_prizepicks, lines 229-238: the league-id loop runs outside any try, and
\* calls .get on the entry, on its relationships and on its attributes
LeagueLoopRaises(r) == r.shape \in {"not_object", "null_rel", "bad_rel", "bad_attrs"}

\* the marker of an over_under title
OverUnder == <<" ", "O", "/", "U">>

\* title.split(" O/U", 1)[0]: the title up to the first " O/U"
BeforeOverUnder(title) ==
    LET i == CHOOSE j \in 0..(Len(title) - 4) :
                 /\ SubSeq(title, j + 1, j + 4) = OverUnder
                 /\ \A k \in 0..(j - 1) : SubSeq(title, k + 1, k + 4) # OverUnder
    IN  SubSeq(title, 1, i)

\* base.rsplit(" ", 1)[0]: base up to its last space, or base when it has none
BeforeLastSpace(base) ==
    IF \E i \in 1..Len(base) : base[i] = " "
    THEN LET i == CHOOSE j \in 1..Len(base) :
                      base[j] = " " /\ \A k \in (j + 1)..Len(base) : base[k] # " "
         IN  SubSeq(base, 1, i - 1)
    ELSE base

\* normalize_underdog, lines 484-488: the player name recovered from the title of
\* the over_under when no option carries a selection_header
TitlePlayer(title) ==
    LET t == OrEmpty(title)
    IN  IF ~Contains(t, OverUnder) THEN <<>>
        ELSE LET base == Strip(BeforeOverUnder(t))
             IN  IF BeforeLastSpace(base) # <<>> THEN BeforeLastSpace(base) ELSE base

UnknownPlayer == <<"U", "n", "k", "n", "o", "w", "n">>

\* the player name of the prop: PrizePicks falls back to "Unknown", Underdog to the
\* title of the over_under
PlayerOf(r, source) ==
    IF source = "prizepicks"
    THEN IF r.player = <<>> THEN UnknownPlayer ELSE r.player
    ELSE IF r.player # <<>> THEN r.player ELSE TitlePlayer(r.title)

\* the row loops: TRUE when the entry yields no prop (a `continue`, or an exception
\* caught by the loop's try)
Skipped_KeepsStatless(r, source) ==
    IF source = "prizepicks"
    THEN r.shape # "object" \/ r.id = "" \/ ~ToFloat(r.line).some
    ELSE \/ r.shape # "object"
         \/ r.status \notin {"", "active"}
         \/ ~ToFloat(r.line).some
         \/ PlayerOf(r, source) = <<>>

Skipped(r, source) ==
    IF source = "prizepicks"
    THEN \/ r.shape # "object"
         \/ r.id = ""
         \/ ~ToFloat(r.line).some
         \/ r.stat = ""
    ELSE \/ r.shape # "object"
         \/ r.status \notin {"", "active"}
         \/ r.stat = ""
         \/ ~ToFloat(r.line).some
         \/ PlayerOf(r, source) = <<>>

RECURSIVE MapRows(_, _, _, _)
MapRows(rows, source, name, slug) ==
    IF rows = <<>> THEN <<>>
    ELSE LET r == Head(rows)
             rest == MapRows(Tail(rows), source, name, slug)
         IN  IF Skipped(r, source) THEN rest
             ELSE <<[Prop(r.id, source, name, slug, r.gt,
                          PlayerOf(r, source), r.stat, ToFloat(r.line))
                       EXCEPT !.tier = IF source = "prizepicks"
                                       THEN _extract_tier_from_attrs(r)
                                       ELSE standard]>> \o rest

\* the set of ids collected over the rows, each as str() gives it
CollectedIds(rows) ==
    ({rows[i].lid : i \in 1..Len(rows)} \ {<<>>})
        \cup {NatText(rows[i].league_id.n) : i \in {j \in 1..Len(rows) : rows[j].league_id.some}}

LeagueMismatch_Ignored(expected, ids) == FALSE

\* the check rejecting only a payload that lacks the expected id
LeagueMismatch_MissingOnly(expected, ids) ==
    expected # <<>> /\ ids # {} /\ expected \notin ids

LeagueMismatch(expected, ids) ==
    expected # <<>> /\ ids # {} /\ ids # {expected}

normalize_prizepicks(raw, sport_key_in, sport_label) ==
    LET sport_key == Lower(sport_key_in)
        isExtras == sport_key = extras
        labelled == Strip(IF OrEmpty(sport_label) # <<>> THEN sport_label.v ELSE ExtrasName)
        sport_name == IF isExtras
                      THEN (IF labelled # <<>> THEN labelled ELSE ExtrasName)
                      ELSE SPORTS[sport_key].name
        expected_league_id == IF isExtras THEN <<>> ELSE SPORTS[sport_key].league_id
        sport_slug == IF isExtras THEN sport_slug_from_label(sport_name) ELSE sport_key
    IN  IF ~isExtras /\ sport_key \notin SportKeys THEN Raised
        ELSE IF \E i \in 1..Len(raw.rows) : LeagueLoopRaises(raw.rows[i]) THEN Crashed
        ELSE IF LeagueMismatch(expected_league_id, CollectedIds(raw.rows)) THEN Raised
        ELSE Returned(MapRows(raw.rows, "prizepicks", sport_name, sport_slug))

normalize_underdog(raw, sport_key_in, sport_label) ==
    LET sport_key == Lower(sport_key_in)
        isExtras == sport_key = extras
        sport_name == IF isExtras THEN Strip(OrEmpty(sport_label)) ELSE SPORTS[sport_key].name
        expected_sport_id == IF isExtras THEN <<>> ELSE UNDERDOG_SPORT_IDS[sport_key]
        sport_slug == IF isExtras THEN sport_slug_from_label(sport_name) ELSE sport_key
        sport_ids == {Upper(x) : x \in CollectedIds(raw.rows)}
    IN  IF isExtras /\ OrEmpty(sport_label) = <<>> THEN Raised
        ELSE IF isExtras /\ sport_name = <<>> THEN Raised
        ELSE IF ~isExtras /\ sport_key \notin SportKeys THEN Raised
        ELSE IF LeagueMismatch(expected_sport_id, sport_ids) THEN Raised
        ELSE Returned(MapRows(raw.rows, "underdog", sport_name, sport_slug))

\* update_props, lines 1855-1856: the request's sport key and label as the handler reads them
SportKeyOf(req) == Lower(req.sport)
SportLabelOf(req) ==
    LET t == Strip(OrEmpty(req.sport_label))
    IN  IF t = <<>> THEN None ELSE Some(t)

\* update_props, lines 1874-1879: provider detection
SourceType(raw) ==
    IF raw.pp THEN "prizepicks" ELSE IF raw.ud THEN "underdog" ELSE "none"

\* update_props, lines 1891-1897
Normalized(req) ==
    IF SourceType(req.raw) = "prizepicks"
    THEN normalize_prizepicks(req.raw, SportKeyOf(req), SportLabelOf(req))
    ELSE normalize_underdog(req.raw, SportKeyOf(req), SportLabelOf(req))

\* update_props, lines 1859-1897: TRUE when the handler raises HTTPException(400)
Rejected(req) ==
    \/ SportKeyOf(req) = <<>>
    \/ SportKeyOf(req) # extras /\ SportKeyOf(req) \notin SportKeys
    \/ ~req.raw.isdict
    \/ SourceType(req.raw) = "none"
    \/ Normalized(req).err

\* the slug of a merge that replaces nothing when the batch is empty
MergeSlug_EmptyKeepsBoard(req, new_props) ==
    IF new_props # <<>> THEN get_prop_sport_slug(new_props[1]) ELSE <<>>

\* update_props, lines 1901-1913: the slug the merge replaces
MergeSlug(req, new_props) ==
    IF new_props # <<>> THEN get_prop_sport_slug(new_props[1])
    ELSE IF SportKeyOf(req) = extras
         THEN sport_slug_from_label(IF SportLabelOf(req).some
                                    THEN SportLabelOf(req).v ELSE ExtrasName)
    ELSE SportKeyOf(req)

\* update_props, lines 1915-1917: the stored records that are kept. (The slug is
\* never empty: a normalizer tags its props with a registry key or with a
\* sport_slug_from_label result, which is "unknown" at least, so the label branch,
\* lines 1918-1920, is not taken.)
Remaining_KeepsAll(existing, sport_slug) == existing

Remaining_DropsAll(existing, sport_slug) == <<>>

Remaining(existing, sport_slug) ==
    SelectSeq(existing, LAMBDA p : get_prop_sport_slug(p) # sport_slug)

\* update_props, line 1922
Combined(existing, sport_slug, new_props) == Remaining(existing, sport_slug) \o new_props

-----------------------------------------------------------------------------
(* Inputs *)

rowA == Row("a", NoGameTime, <<"7">>)
rowB == Row("b", IsoGameTime(1, "Z"), <<"7">>)
rowC == Row("c", IsoGameTime(2, "+01:00"), <<>>)
rowD == Row("d", TextGameTime, <<>>)
rowE == Row("e", IsoGameTime(1, ""), <<"9">>)
rowU == Row("u", IsoGameTime(1, "-01:00"), <<"n", "b", "a">>)
rowV == Row("v", EmptyGameTime, <<"N", "F", "L">>)

\* request bodies that name a registry sport, no sport, or an unknown sport
RegistryRequests ==
    [sport : {<<>>, <<"N", "B", "A">>, <<"x", "f", "l">>},
     sport_label : {None},
     raw : {NotObject, OtherObject,
            PrizePicksRaw(<<>>), PrizePicksRaw(<<rowA, rowB>>), PrizePicksRaw(<<rowA, rowE>>),
            UnderdogRaw(<<rowU>>), UnderdogRaw(<<rowV>>)}]

LabelInputs == {None, Some(<<" ">>), Some(<<" ", "G", "o", "!">>)}

\* request bodies that name the sport "extras"
ExtrasRequests ==
    [sport : {extras},
     sport_label : LabelInputs,
     raw : {PrizePicksRaw(<<rowC, rowD>>), UnderdogRaw(<<rowV>>)}]

\* the request bodies {sport, sport_label, raw} that are posted
Requests == RegistryRequests \cup ExtrasRequests

\* the request bodies posted while requests overlap: one rejected for its sport, one
\* rejected for its league ids, and two accepted ones for different sport slugs
RaceRequests ==
    {req \in RegistryRequests :
        \/ req.sport = <<>> /\ req.raw = NotObject
        \/ req.sport = <<"N", "B", "A">> /\ req.raw = PrizePicksRaw(<<rowA, rowE>>)}
        \cup {[sport |-> <<"N", "B", "A">>, sport_label |-> None,
               raw |-> PrizePicksRaw(<<rowA, rowB>>)],
              [sport |-> extras, sport_label |-> Some(<<" ", "G", "o", "!">>),
               raw |-> UnderdogRaw(<<rowV>>)]}

\* entries that lack a field, carry it in another JSON type, or are malformed; each
\* names league 7 (NBA) in its league relationship unless said otherwise
rowNoStat == RowOf("s", NoGameTime, <<"7">>, NoNumber, "object", NumberLine(5), "", Ann, "")
rowTextLine == RowOf("t", NoGameTime, <<"7">>, NoNumber, "object", TextLine, "Points", Ann, "")
rowNoLine == RowOf("n", NoGameTime, <<"7">>, NoNumber, "object", AbsentLine, "Points", Ann, "")
rowNumericText ==
    RowOf("m", NoGameTime, <<"7">>, NoNumber, "object", NumericTextLine(5), "Points", Ann, "")
rowNoPlayer ==
    RowOf("p", NoGameTime, <<"7">>, NoNumber, "object", NumberLine(5), "Points", <<>>, "")
rowNoId == RowOf("", NoGameTime, <<"7">>, NoNumber, "object", NumberLine(5), "Points", Ann, "")
rowNullAttrs == RowOf("x", NoGameTime, <<"7">>, NoNumber, "null_attrs", AbsentLine, "", Ann, "")
rowBadAttrs == RowOf("y", NoGameTime, <<"7">>, NoNumber, "bad_attrs", AbsentLine, "", Ann, "")
rowNullRel ==
    RowOf("z", NoGameTime, <<>>, NoNumber, "null_rel", NumberLine(5), "Points", <<>>, "")
rowBadRel ==
    RowOf("w", NoGameTime, <<>>, NoNumber, "bad_rel", NumberLine(5), "Points", <<>>, "")
rowNull == RowOf("", NoGameTime, <<>>, NoNumber, "not_object", AbsentLine, "", <<>>, "")
\* entries that carry their league id in the league_id attribute, or carry none
rowAttr7 == RowOf("g", NoGameTime, <<>>, Number(7), "object", NumberLine(5), "Points", Ann, "")
rowAttr9 == RowOf("h", NoGameTime, <<>>, Number(9), "object", NumberLine(5), "Points", Ann, "")
rowAttr20 == RowOf("i", NoGameTime, <<>>, Number(20), "object", NumberLine(5), "Points", Ann, "")
rowNoLeague == RowOf("k", NoGameTime, <<>>, NoNumber, "object", NumberLine(5), "Points", Ann, "")
\* Underdog lines of an NBA game
rowLine == Row("l", NoGameTime, <<"N", "B", "A">>)
rowClosed ==
    RowOf("c", NoGameTime, <<"N", "B", "A">>, NoNumber, "object", NumberLine(5), "Points", Ann,
          "closed")

\* the entries a payload carries next to a well-formed one
RowVariants ==
    {rowNoStat, rowTextLine, rowNoLine, rowNumericText, rowNoPlayer, rowNoId,
     rowNullAttrs, rowBadAttrs, rowNullRel, rowBadRel, rowNull}

\* the same entry as a line of an NBA game of Underdog
AsLine(r) == [r EXCEPT !.lid = <<"N", "B", "A">>]

\* PrizePicks- and Underdog-shaped payloads for the NBA with one entry of RowVariants
\* before or after a well-formed one
VariantRequests ==
    [sport : {nba}, sport_label : {None},
     raw : {PrizePicksRaw(<<rowA, v>>) : v \in RowVariants}
            \cup {PrizePicksRaw(<<v, rowA>>) : v \in {rowNoStat, rowNullRel}}
            \cup {UnderdogRaw(<<rowLine, AsLine(v)>>) : v \in RowVariants \cup {rowClosed}}]

\* PrizePicks-shaped payloads whose entries name their league in the relationship,
\* in the attribute, in both, or not at all
LeagueRequests ==
    [sport : {nba}, sport_label : {None},
     raw : {PrizePicksRaw(rows) :
              rows \in {<<rowNoLeague>>, <<rowAttr7>>, <<rowAttr9>>, <<rowAttr20>>,
                        <<rowA, rowAttr7>>, <<rowA, rowAttr9>>, <<rowE, rowNoLeague>>,
                        <<rowNoLeague, rowA>>}}]
        \cup [sport : {cbb}, sport_label : {None},
              raw : {PrizePicksRaw(<<rowAttr20>>), PrizePicksRaw(<<rowAttr7>>)}]
        \cup [sport : {extras}, sport_label : {None},
              raw : {PrizePicksRaw(<<rowAttr9>>), PrizePicksRaw(<<rowE, rowA>>)}]

\* the request bodies posted to exercise the normalizers
NormRequests == VariantRequests \cup ExtrasRequests

\* update_props, lines 1854-1913: what the handler derives from the request body
\* alone, before it touches the files: whether it raises HTTPException(400), whether
\* an exception other than ValueError leaves the normalizer (and the handler, which
\* catches ValueError only), and otherwise the normalized batch and the slug that
\* the merge replaces
Crashes(req) == ~Rejected(req) /\ Normalized(req).crash

Handled(req) ==
    IF Rejected(req)
    THEN [req |-> req, rejected |-> TRUE, crashed |-> FALSE,
          new_props |-> <<>>, sport_slug |-> <<>>]
    ELSE IF Crashes(req)
    THEN [req |-> req, rejected |-> FALSE, crashed |-> TRUE,
          new_props |-> <<>>, sport_slug |-> <<>>]
    ELSE [req |-> req, rejected |-> FALSE, crashed |-> FALSE,
          new_props |-> Normalized(req).props,
          sport_slug |-> MergeSlug(req, Normalized(req).props)]

Calls == {Handled(req) : req \in Requests}
RaceCalls == {Handled(req) : req \in RaceRequests}
NormCalls == {Handled(req) : req \in NormRequests}
LeagueCalls == {Handled(req) : req \in LeagueRequests}

\* every slug a record of the board can carry
Slugs ==
    SportKeys
        \cup {sport_slug_from_label(ExtrasName)}
        \cup {sport_slug_from_label(l.v) : l \in {x \in LabelInputs : x.some}}

-----------------------------------------------------------------------------
(* Request slots *)

\* update_props is a coroutine: it runs on the event loop
Uploaders == {"u1", "u2"}
\* props_json is a plain function: it runs on a worker thread
Readers == {"r1"}
Slots == Uploaders \cup Readers

IdleSlot ==
    [pc |-> "idle", phase |-> "none", loaded |-> <<>>, buf |-> <<>>,
     batch |-> <<>>, slug |-> <<>>, now |-> 0, stale |-> FALSE]

NoResponse ==
    [kind |-> "none", status |-> 0, now |-> 0,
     result |-> <<>>, count |-> 0, total |-> 0, again |-> FALSE]

\* HTTPException(status_code=400) raised by update_props
BadRequest(u) ==
    [kind |-> "upload", status |-> 400, now |-> 0,
     result |-> <<>>, count |-> 0, total |-> 0, again |-> FALSE]

\* the body reporting the size of the batch as the total
UploadOk_TotalOfBatch(u, count, total) ==
    [kind |-> "upload", status |-> 200, now |-> 0,
     result |-> <<>>, count |-> count, total |-> count, again |-> FALSE]

\* the {"status": "ok", ...} body returned by update_props
UploadOk(u, count, total) ==
    [kind |-> "upload", status |-> 200, now |-> 0,
     result |-> <<>>, count |-> count, total |-> total, again |-> FALSE]

\* JSONResponse(props) returned by props_json; `again` records that the response
\* before it was a read's, at the same instant
ReadOk(r, now, props) ==
    [kind |-> "read", status |-> 200, now |-> now,
     result |-> props, count |-> 0, total |-> 0,
     again |-> (last.kind = "read" /\ last.status = 200 /\ last.now = now)]

\* the response to a request whose handler let an exception escape
ServerError(p) ==
    [kind |-> IF p \in Uploaders THEN "upload" ELSE "read", status |-> 500,
     now |-> 0, result |-> <<>>, count |-> 0, total |-> 0, again |-> FALSE]

NotYetUploaded == [set |-> FALSE, batch |-> <<>>]

Init ==
    /\ primary = Absent
    /\ backup = Absent
    /\ clock = 0
    /\ th = [p \in Slots |-> IdleSlot]
    /\ faults = 0
    /\ latest = [s \in Slugs |-> NotYetUploaded]
    /\ last = NoResponse
    /\ clobbered = FALSE

\* The body of update_props after `await request.json()` has no await: the event loop
\* runs it to its response before it resumes any other coroutine.
EventLoopFree_Threaded(u) == TRUE

EventLoopFree(u) == \A v \in Uploaders \ {u} : th[v].pc = "idle"

\* a Save has opened the primary file and has not yet written the backup file
InSave(p) == th[p].pc \in {"p_write", "b_open", "b_write"}

\* slot p hands back the list `props` of get_current_props and its handler responds
Respond(p, now, props) ==
    /\ th' = [th EXCEPT ![p] = IdleSlot]
    /\ IF p \in Uploaders
       THEN /\ last' = UploadOk(p, Len(th[p].batch), Len(props))
            /\ latest' = [latest EXCEPT ![th[p].slug] = [set |-> TRUE, batch |-> th[p].batch]]
       ELSE /\ last' = ReadOk(p, now, props)
            /\ UNCHANGED latest

\* get_current_props up to its call of save_props
CurrentPropsLoad(p) ==
    LET raw == load_file_props_raw_or_empty(primary, backup)
        now == clock
        filtered == Filtered(raw, now)
    IN  /\ UNCHANGED <<primary, backup, clock, faults, clobbered>>
        /\ IF raw = <<>>
           THEN Respond(p, now, <<>>)
           ELSE IF Changed(raw, now)
           THEN /\ th' = [th EXCEPT ![p] = [@ EXCEPT !.pc = "p_open", !.phase = "prune",
                                               !.loaded = raw, !.buf = filtered,
                                               !.now = now, !.stale = FALSE]]
                /\ UNCHANGED <<last, latest>>
           ELSE Respond(p, now, CurrentProps(raw, filtered))

\* GET /props.json
ReadBegin(r) ==
    /\ r \in Readers
    /\ th[r].pc = "idle"
    /\ CurrentPropsLoad(r)

\* POST /update-props up to its call of save_props
UploadBegin(u, call) ==
    /\ u \in Uploaders
    /\ th[u].pc = "idle"
    /\ EventLoopFree(u)
    /\ UNCHANGED <<primary, backup, clock, faults, latest, clobbered>>
    /\ IF call.rejected
       THEN /\ last' = BadRequest(u)
            /\ UNCHANGED th
       ELSE IF call.crashed
       THEN /\ last' = ServerError(u)
            /\ UNCHANGED th
       ELSE LET existing == load_file_props_raw_or_empty(primary, backup)
            IN  /\ th' = [th EXCEPT ![u] = [pc |-> "p_open", phase |-> "merge",
                                             loaded |-> existing,
                                             buf |-> Combined(existing, call.sport_slug,
                                                              call.new_props),
                                             batch |-> call.new_props,
                                             slug |-> call.sport_slug,
                                             now |-> 0, stale |-> FALSE]]
                /\ UNCHANGED last

\* update_props, line 1925: the call of get_current_props after the merge was saved
UploadRecount(u) ==
    /\ u \in Uploaders
    /\ th[u].pc = "recount"
    /\ CurrentPropsLoad(u)

\* save_props: write_text opens the file for writing, which truncates it
SaveOpen(p) ==
    /\ th[p].pc \in {"p_open", "b_open"}
    /\ IF th[p].pc = "p_open"
       THEN primary' = Torn /\ UNCHANGED backup
       ELSE backup' = Torn /\ UNCHANGED primary
    /\ th' = [th EXCEPT ![p].pc = IF th[p].pc = "p_open" THEN "p_write" ELSE "b_write"]
    /\ UNCHANGED <<clock, faults, latest, last, clobbered>>

\* the text that save_props writes to both files
SavedText_Loaded(p) == save_text(th[p].loaded)

SavedText(p) == save_text(th[p].buf)

\* save_props: write_text writes the text to the primary file
SavePrimary(p) ==
    /\ th[p].pc = "p_write"
    /\ primary' = SavedText(p)
    /\ th' = [q \in Slots |->
                IF q = p THEN [th[p] EXCEPT !.pc = "b_open"]
                ELSE IF th[p].phase = "merge" /\ th[q].phase = "prune"
                     THEN [th[q] EXCEPT !.stale = TRUE]
                ELSE th[q]]
    /\ clobbered' = (clobbered \/ (th[p].phase = "prune" /\ th[p].stale))
    /\ UNCHANGED <<backup, clock, faults, latest, last>>

\* save_props: write_text writes the text to the backup file; save_props returns
SaveBackup(p) ==
    /\ th[p].pc = "b_write"
    /\ backup' = SavedText(p)
    /\ clobbered' = (clobbered \/ (th[p].phase = "prune" /\ th[p].stale))
    /\ UNCHANGED <<primary, clock, faults>>
    /\ IF th[p].phase = "merge"
       THEN /\ th' = [th EXCEPT ![p].pc = "recount"]
            /\ UNCHANGED <<last, latest>>
       ELSE Respond(p, th[p].now, CurrentProps(th[p].loaded, th[p].buf))

\* save_props has no try/except: an OSError of write_text leaves save_props,
\* get_current_props and the handler. Raised by open(), the file is as it was; raised
\* while writing, the file stays truncated.
SaveRaises(p) ==
    /\ th[p].pc \in {"p_open", "p_write", "b_open", "b_write"}
    /\ faults < MaxFaults
    /\ faults' = faults + 1
    /\ th' = [th EXCEPT ![p] = IdleSlot]
    /\ last' = ServerError(p)
    /\ UNCHANGED <<primary, backup, clock, latest, clobbered>>

\* time passes
Tick ==
    /\ clock < MaxClock
    /\ clock' = clock + 1
    /\ UNCHANGED <<primary, backup, th, faults, latest, last, clobbered>>

Next ==
    \/ \E u \in Uploaders, call \in RaceCalls : UploadBegin(u, call)
    \/ \E u \in Uploaders : UploadRecount(u)
    \/ \E r \in Readers : ReadBegin(r)
    \/ \E p \in Slots : SaveOpen(p)
    \/ \E p \in Slots : SavePrimary(p)
    \/ \E p \in Slots : SaveBackup(p)
    \/ \E p \in Slots : SaveRaises(p)
    \/ Tick

\* requests arrive at any time: handlers of different requests interleave
Spec == Init /\ [][Next]_vars

\* no other request is being handled
Alone(p) == \A q \in Slots \ {p} : th[q].pc = "idle"

SeqNext ==
    \/ \E u \in Uploaders, call \in Calls : Alone(u) /\ UploadBegin(u, call)
    \/ \E u \in Uploaders : UploadRecount(u)
    \/ \E r \in Readers : Alone(r) /\ ReadBegin(r)
    \/ \E p \in Slots : SaveOpen(p)
    \/ \E p \in Slots : SavePrimary(p)
    \/ \E p \in Slots : SaveBackup(p)
    \/ Tick

\* one request at a time, and no write raises
SeqSpec == Init /\ [][SeqNext]_vars

NormNext ==
    \/ \E u \in Uploaders, call \in NormCalls : Alone(u) /\ UploadBegin(u, call)
    \/ \E u \in Uploaders : UploadRecount(u)
    \/ \E r \in Readers : Alone(r) /\ ReadBegin(r)
    \/ \E p \in Slots : SaveOpen(p)
    \/ \E p \in Slots : SavePrimary(p)
    \/ \E p \in Slots : SaveBackup(p)
    \/ Tick

\* one request at a time, uploads carrying incomplete and malformed entries
NormSpec == Init /\ [][NormNext]_vars

LeagueNext ==
    \/ \E u \in Uploaders, call \in LeagueCalls : Alone(u) /\ UploadBegin(u, call)
    \/ \E u \in Uploaders : UploadRecount(u)
    \/ \E r \in Readers : Alone(r) /\ ReadBegin(r)
    \/ \E p \in Slots : SaveOpen(p)
    \/ \E p \in Slots : SavePrimary(p)
    \/ \E p \in Slots : SaveBackup(p)
    \/ Tick

\* one request at a time, uploads naming their league in every way
LeagueSpec == Init /\ [][LeagueNext]_vars

-----------------------------------------------------------------------------
(* Vocabulary of the properties *)

\* the board as a request would load it now
Stored == load_file_props_raw_or_empty(primary, backup)

\* no request is being handled
Quiescent == \A p \in Slots : th[p].pc = "idle"

\* record x occurs in the list
Occurs(x, list) == \E i \in 1..Len(list) : list[i] = x

\* the record's game_time is absent or is no timestamp
NeverExpires(x) == ~_parse_game_time(x.game_time).ok

\* the records of the list whose sport_slug field is s, and the others, in order
OfSlug(list, s) == SelectSeq(list, LAMBDA x : x.sport_slug = s)
NotOfSlug(list, s) == SelectSeq(list, LAMBDA x : x.sport_slug # s)

\* slot u has saved its merged board and has not yet recounted the live board
MergeSaved(u) == u \in Uploaders /\ th[u].pc = "recount"

\* the slug of the batch that slot u uploads: that of its records, or, for an empty
\* batch, the slug selected by the request
BatchSlug(u) == IF th[u].batch # <<>> THEN th[u].batch[1].sport_slug ELSE th[u].slug

-----------------------------------------------------------------------------
(* C1: sport-scoped full replace *)

\* C1: when the merge of an accepted upload with batch B of slug s has been saved
\* over the stored board S, both files hold exactly the records of S whose slug is
\* not s, in their order, followed by B; and between requests every stored record
\* belongs to the batch of the most recent accepted upload for its slug.
C1_SportScopedReplace ==
    /\ \A u \in Uploaders :
          MergeSaved(u) =>
              LET written == NotOfSlug(th[u].loaded, BatchSlug(u)) \o th[u].batch
              IN  /\ primary = Holding(written)
                  /\ backup = Holding(written)
                  /\ OfSlug(written, BatchSlug(u)) = th[u].batch
    /\ Quiescent =>
          \A i \in 1..Len(Stored) :
              /\ latest[Stored[i].sport_slug].set
              /\ Occurs(Stored[i], latest[Stored[i].sport_slug].batch)

\* an upload replaced stored records of its own slug and kept records of another
C1_Witness ==
    \E u \in Uploaders :
        /\ MergeSaved(u)
        /\ th[u].batch # <<>>
        /\ \E i \in 1..Len(th[u].loaded) :
              /\ th[u].loaded[i].sport_slug = BatchSlug(u)
              /\ ~Occurs(th[u].loaded[i], primary.data)
        /\ \E i \in 1..Len(th[u].loaded) : th[u].loaded[i].sport_slug # BatchSlug(u)

-----------------------------------------------------------------------------
(* C2: frame of an upload *)

\* C2: when the merge of an accepted upload for slug s has been saved, the stored
\* records whose slug differs from s are all in the written board, unmodified and
\* in their order.
C2_OtherSportsUntouched ==
    \A u \in Uploaders :
        MergeSaved(u) =>
            /\ primary.st = "ok"
            /\ NotOfSlug(primary.data, BatchSlug(u)) = NotOfSlug(th[u].loaded, BatchSlug(u))
            /\ \A i \in 1..Len(th[u].loaded) :
                  th[u].loaded[i].sport_slug # BatchSlug(u)
                      => Occurs(th[u].loaded[i], primary.data)

\* an upload was merged into a board that held two other sports
C2_Witness ==
    \E u \in Uploaders :
        /\ MergeSaved(u)
        /\ \E i, j \in 1..Len(th[u].loaded) :
              /\ th[u].loaded[i].sport_slug # BatchSlug(u)
              /\ th[u].loaded[j].sport_slug # BatchSlug(u)
              /\ th[u].loaded[i].sport_slug # th[u].loaded[j].sport_slug
        /\ Len(primary.data) > Len(th[u].batch)

-----------------------------------------------------------------------------
(* C3: a rejected upload changes nothing *)

\* the request bodies of the kinds of rejection that the upload surface lists
MissingSport(req) == req.sport = <<>>
UnknownSport(req) == req.sport # <<>> /\ Lower(req.sport) \notin SportKeys \cup {extras}
RawNotObject(req) == ~req.raw.isdict
UnrecognizedShape(req) == req.raw.isdict /\ ~req.raw.pp /\ ~req.raw.ud
IdMismatch(req) ==
    /\ Lower(req.sport) \in SportKeys
    /\ req.raw.pp \/ req.raw.ud
    /\ LET expected == IF req.raw.pp THEN SPORTS[Lower(req.sport)].league_id
                       ELSE UNDERDOG_SPORT_IDS[Lower(req.sport)]
           found == {IF req.raw.pp THEN x ELSE Upper(x) : x \in CollectedIds(req.raw.rows)}
       IN  found # {} /\ found # {expected}
MissingUnderdogLabel(req) ==
    /\ Lower(req.sport) = extras
    /\ ~req.raw.pp /\ req.raw.ud
    /\ Strip(OrEmpty(req.sport_label)) = <<>>
ListedRejection(req) ==
    \/ MissingSport(req) \/ UnknownSport(req) \/ RawNotObject(req)
    \/ UnrecognizedShape(req) \/ IdMismatch(req) \/ MissingUnderdogLabel(req)

ListedRejections == {call \in Calls : ListedRejection(call.req)}

-----------------------------------------------------------------------------
(* C4: expiry pruning on read *)

\* the records of the list that a read at instant now is to return
Unexpired(list, now) ==
    SelectSeq(list, LAMBDA x : LET gt == _parse_game_time(x.game_time)
                                IN  (~gt.ok) \/ (gt.t >= now))

\* C4: a read that answers without saving returns the stored list, none of whose
\* records has expired, and writes no file; a read that goes on to save has loaded
\* the stored list and holds exactly its unexpired records, in order; and when that
\* read answers, it returns exactly those records and both files hold them.
C4_PruneOnRead ==
    [][\A r \in Readers :
          /\ (ReadBegin(r) /\ th'[r].pc = "idle") =>
                /\ last'.result = Unexpired(Stored, clock)
                /\ last'.result = Stored
                /\ primary' = primary /\ backup' = backup
          /\ (ReadBegin(r) /\ th'[r].pc # "idle") =>
                /\ th'[r].loaded = Stored
                /\ th'[r].buf = Unexpired(Stored, clock)
                /\ th'[r].buf # Stored
                /\ th'[r].now = clock
          /\ SaveBackup(r) =>
                /\ last'.result = Unexpired(th[r].loaded, th[r].now)
                /\ primary' = Holding(last'.result)
                /\ backup' = Holding(last'.result)]_vars

\* a read has dropped an expired record, kept one whose time equals now, and answered
C4_Witness ==
    /\ Quiescent
    /\ last.kind = "read"
    /\ last.status = 200
    /\ primary = Holding(last.result)
    /\ backup = Holding(last.result)
    /\ \E i \in 1..Len(last.result) :
          LET gt == _parse_game_time(last.result[i].game_time)
          IN  gt.ok /\ gt.t = last.now
    /\ \E s \in Slugs :
          /\ latest[s].set
          /\ \E i \in 1..Len(latest[s].batch) :
                LET gt == _parse_game_time(latest[s].batch[i].game_time)
                IN  gt.ok /\ gt.t < last.now /\ ~Occurs(latest[s].batch[i], primary.data)

-----------------------------------------------------------------------------
(* C5: records without a usable game_time are never pruned *)

\* slot p takes a step of get_current_props (its load, or the Save of its pruned list)
PruneStep(p) ==
    \/ ReadBegin(p)
    \/ UploadRecount(p)
    \/ th[p].phase = "prune" /\ (SaveOpen(p) \/ SavePrimary(p) \/ SaveBackup(p))

\* C5: no step of get_current_props, whatever the clock shows, removes from the
\* stored board a record whose game_time is absent or unparseable, and every read
\* that answers returns every such record.
C5_UntimedNeverPruned ==
    [][\A p \in Slots :
          PruneStep(p) =>
              \A i \in 1..Len(Stored) :
                  NeverExpires(Stored[i]) =>
                      /\ Occurs(Stored[i], Stored')
                      /\ (p \in Readers /\ th'[p].pc = "idle")
                            => Occurs(Stored[i], last'.result)]_vars

\* a pruning read is writing back a list that kept an untimed record and dropped another
C5_Witness ==
    \E r \in Readers :
        /\ th[r].pc = "b_write"
        /\ th[r].phase = "prune"
        /\ Len(th[r].buf) < Len(th[r].loaded)
        /\ \E i \in 1..Len(th[r].buf) : th[r].buf[i].game_time.kind = "none"
        /\ \E i \in 1..Len(th[r].buf) : th[r].buf[i].game_time.kind = "text"
        /\ clock = MaxClock

-----------------------------------------------------------------------------
(* C6: idempotent re-read *)

\* C6: a read that starts when the request answered last was a read at the same
\* instant answers at once with the same list and writes neither file.
C6_IdempotentReread ==
    [][\A r \in Readers :
          (ReadBegin(r) /\ last.kind = "read" /\ last.status = 200 /\ last.now = clock) =>
              /\ th'[r].pc = "idle"
              /\ last'.result = last.result
              /\ primary' = primary
              /\ backup' = backup]_vars

\* a second read at the same instant has answered, after a first one that pruned
C6_Witness ==
    /\ Quiescent
    /\ last.kind = "read"
    /\ last.again
    /\ last.result # <<>>
    /\ primary = Holding(last.result)
    /\ \E s \in Slugs :
          /\ latest[s].set
          /\ \E i \in 1..Len(latest[s].batch) : ~Occurs(latest[s].batch[i], last.result)

-----------------------------------------------------------------------------
(* C7: an upload raced by a pruning read *)

\* a record that never expires, of the batch of the last upload answered ok for its
\* slug, is not on the stored board
LostUpload ==
    \E s \in Slugs :
        /\ latest[s].set
        /\ \E i \in 1..Len(latest[s].batch) :
              /\ NeverExpires(latest[s].batch[i])
              /\ ~Occurs(latest[s].batch[i], Stored)

\* C7: between requests, and when no write has raised, a record that never expires
\* and belongs to the last upload answered ok for its slug is missing from the stored
\* board only if a pruning read wrote the list it had loaded before a merge was
\* saved, after that merge was saved: the read's file content replaced the upload's
\* in full. (That such a state is reached is C7_Witness.)
C7_LossOnlyByStalePrune ==
    (Quiescent /\ faults = 0 /\ LostUpload) => clobbered

\* the upload was answered ok, a pruning read then wrote its older list, and the
\* stored board is the read's list, without the upload's batch
C7_Witness ==
    /\ Quiescent
    /\ faults = 0
    /\ clobbered
    /\ LostUpload
    /\ last.kind = "read"
    /\ last.status = 200
    /\ primary = Holding(last.result)
    /\ backup = primary

-----------------------------------------------------------------------------
(* C8: two uploads *)

\* slot u is between the load and the end of the Save of its merge
Merging(u) == th[u].phase = "merge" /\ th[u].pc \in {"p_open", "p_write", "b_open", "b_write"}

-----------------------------------------------------------------------------
(* C9: primary / backup agreement *)

NoSaveInProgress == \A p \in Slots : ~InSave(p)

\* C9: starting from both files absent, the two files hold identical content
\* whenever no Save is in progress, also when the Saves of concurrent requests
\* interleave their writes. (No write has raised: the disagreement is the work of
\* the interleaving alone.)
C9_FilesAlwaysAgree ==
    (NoSaveInProgress /\ faults = 0) => primary = backup

-----------------------------------------------------------------------------
(* C10: storage write failures *)

\* C10: a request whose Save met a write failure still completes without an error
\* status: no response is a server error.
C10_WriteFailuresSwallowed == last.status < 500

-----------------------------------------------------------------------------
(* C11: tolerant load *)

\* the file exists and json.load accepts its text
Readable(file) == file.st = "ok"

\* C11: a request that loads the board gets the primary file's list whenever the
\* primary exists and parses, otherwise the backup file's list whenever the backup
\* exists and parses, otherwise the empty list: a read that saves nothing answers 200
\* with the unexpired records of that list and nothing else, and a request that goes
\* on to save holds that list as the one it loaded. The backup's list is used only
\* when the primary is absent or unreadable.
C11_TolerantLoad ==
    [][\A p \in Slots :
          (\/ p \in Readers /\ ReadBegin(p)
           \/ p \in Uploaders /\ UploadRecount(p)
           \/ p \in Uploaders /\ th[p].pc = "idle" /\ th'[p].pc = "p_open")
          =>
          LET expect == IF Readable(primary) THEN primary.data
                        ELSE IF Readable(backup) THEN backup.data
                        ELSE <<>>
          IN  /\ th'[p].pc # "idle" => th'[p].loaded = expect
              /\ (th'[p].pc = "idle" /\ p \in Readers) =>
                    /\ last'.kind = "read"
                    /\ last'.status = 200
                    /\ last'.result = Unexpired(expect, clock)
              /\ (th'[p].pc = "idle" /\ p \in Uploaders) =>
                    /\ last'.status = 200
                    /\ last'.total = Len(Unexpired(expect, clock))]_vars

\* a write failure left the primary file unreadable, and the read that followed
\* returned the backup file's records
C11_Witness ==
    /\ Quiescent
    /\ faults > 0
    /\ ~Readable(primary)
    /\ Readable(backup)
    /\ backup.data # <<>>
    /\ last.kind = "read"
    /\ last.status = 200
    /\ last.result = backup.data

-----------------------------------------------------------------------------
(* C12: persisted records are complete *)

\* the record has a non-empty player, a non-null line and a non-empty stat
Complete(x) == x.player # <<>> /\ x.line.some /\ x.stat # ""

AllComplete(list) == \A i \in 1..Len(list) : Complete(list[i])

\* C12: starting from an empty store, after any sequence of uploads of either
\* provider shape, accepted or not, and of reads, every record of the primary file,
\* of the backup file and of the board a request loads has a non-empty player, a
\* non-null line and a non-empty stat; and the batch a normalizer hands to the merge
\* holds such records only.
C12_PersistedRecordsComplete ==
    /\ AllComplete(primary.data)
    /\ AllComplete(backup.data)
    /\ AllComplete(Stored)
    /\ \A p \in Slots : AllComplete(th[p].batch) /\ AllComplete(th[p].buf)

\* an upload whose payload held an entry without a stat, without a parseable line or
\* without a player was answered ok, and the stored board is its batch, which has
\* fewer records than the payload has entries
C12_Witness ==
    /\ Quiescent
    /\ last.kind = "upload"
    /\ last.status = 200
    /\ Stored # <<>>
    /\ \E call \in NormCalls :
          /\ ~call.rejected /\ ~call.crashed
          /\ \E i \in 1..Len(call.req.raw.rows) :
                LET r == call.req.raw.rows[i]
                IN  r.shape = "object" /\ (r.stat = "" \/ ~ToFloat(r.line).some)
          /\ Len(call.new_props) < Len(call.req.raw.rows)
          /\ latest[call.sport_slug] = [set |-> TRUE, batch |-> call.new_props]
          /\ Stored = call.new_props

-----------------------------------------------------------------------------
(* C13: one malformed entry *)

\* the entry is malformed: it is no object, its attributes or relationships are null
\* or no object, or its line is not a number
MalformedEntry(r) == r.shape # "object" \/ r.line.kind = "text"

\* the request with the malformed entries taken out of its payload
WithoutMalformed(req) ==
    [req EXCEPT !.raw.rows = SelectSeq(req.raw.rows, LAMBDA r : ~MalformedEntry(r))]

\* the uploads of a recognized provider shape, for a registry sport whose identifiers
\* the payload matches, with exactly one malformed entry; each with the batch that its
\* well-formed entries normalize to
OneMalformedCalls ==
    {[call |-> call, batch |-> Normalized(WithoutMalformed(call.req)).props] :
        call \in {c \in NormCalls :
                    /\ Lower(c.req.sport) \in SportKeys
                    /\ c.req.raw.pp \/ c.req.raw.ud
                    /\ ~IdMismatch(c.req)
                    /\ Cardinality({i \in 1..Len(c.req.raw.rows) :
                                      MalformedEntry(c.req.raw.rows[i])}) = 1}}

\* C13: an upload of a recognized provider shape whose identifiers match the selected
\* sport and that has one malformed entry is accepted: the malformed entry is
\* skipped and the batch that is merged is the one of the well-formed entries.
C13_MalformedRowSkipped ==
    [][\A u \in Uploaders, c \in OneMalformedCalls :
          UploadBegin(u, c.call) =>
              /\ th'[u].pc = "p_open"
              /\ th'[u].batch = c.batch
              /\ th'[u].buf = Combined(th'[u].loaded, th'[u].slug, c.batch)]_vars

-----------------------------------------------------------------------------
(* C14: league mismatch check *)

\* the league ids of the entries of a PrizePicks-shaped payload, as strings: the id of
\* the league relationship and the league_id attribute of every entry that has one
LeagueIdsOf(req) ==
    {req.raw.rows[i].lid : i \in {j \in 1..Len(req.raw.rows) : req.raw.rows[j].lid # <<>>}}
        \cup {NatText(req.raw.rows[i].league_id.n) :
                i \in {j \in 1..Len(req.raw.rows) : req.raw.rows[j].league_id.some}}

\* the PrizePicks-shaped uploads, each with the verdict of the claim: rejected when the
\* sport is a registry sport and the league ids are some set other than {E}
LeagueVerdicts ==
    {[call |-> call,
      reject |-> /\ Lower(call.req.sport) \in SportKeys
                 /\ LeagueIdsOf(call.req) # {}
                 /\ LeagueIdsOf(call.req) # {SPORTS[Lower(call.req.sport)].league_id}] :
        call \in {c \in LeagueCalls : c.req.raw.pp}}

\* C14: a PrizePicks-shaped upload for a registry sport with expected league id E is
\* answered 400, and changes nothing, if and only if the set of league ids collected
\* from its entries is non-empty and is not {E}; otherwise it is accepted and goes on
\* to the merge. A payload with no league id is accepted, and so is every upload
\* tagged 'extras', whatever league ids it carries. (The entries are objects with
\* object attributes and relationships: the collection completes.)
C14_LeagueMismatchCheck ==
    [][\A u \in Uploaders, v \in LeagueVerdicts :
          UploadBegin(u, v.call) =>
              IF v.reject
              THEN /\ last'.kind = "upload" /\ last'.status = 400
                   /\ th' = th /\ primary' = primary /\ backup' = backup
              ELSE /\ th'[u].pc = "p_open"
                   /\ Len(th'[u].batch) = Len(v.call.req.raw.rows)
                   /\ last' = last]_vars

\* an NBA upload with no league id, a CBB upload whose league_id attribute is the
\* number 20 and an extras upload carrying league 9 were accepted, and the upload
\* answered last, carrying a foreign league id, was rejected
C14_Witness ==
    /\ Quiescent
    /\ last.kind = "upload"
    /\ last.status = 400
    /\ latest[nba].set
    /\ \E i \in 1..Len(latest[nba].batch) : latest[nba].batch[i].id = "k"
    /\ latest[cbb].set
    /\ \E i \in 1..Len(latest[cbb].batch) : latest[cbb].batch[i].id = "i"
    /\ latest[extras].set
    /\ \E i \in 1..Len(latest[extras].batch) : latest[extras].batch[i].id = "h"

-----------------------------------------------------------------------------
(* C15: extras uploads and their label *)

\* the uploads tagged 'extras', of either provider shape
ExtrasCalls == {c \in Calls : Lower(c.req.sport) = extras /\ (c.req.raw.pp \/ c.req.raw.ud)}

\* the sport_label of the request is absent or blank
BlankLabel(req) == Strip(OrEmpty(req.sport_label)) = <<>>

\* C15: an upload tagged 'extras' whose sport_label is absent or blank is answered
\* 400 and changes nothing, whichever provider shape its payload has; with a
\* non-blank label it is accepted and the label, stripped, is the sport display name
\* of every record of its batch.
C15_ExtrasRequireLabel ==
    [][\A u \in Uploaders, c \in ExtrasCalls :
          UploadBegin(u, c) =>
              IF BlankLabel(c.req)
              THEN /\ last'.kind = "upload" /\ last'.status = 400
                   /\ th' = th /\ primary' = primary /\ backup' = backup
              ELSE /\ th'[u].pc = "p_open"
                   /\ th'[u].batch # <<>>
                   /\ \A i \in 1..Len(th'[u].batch) :
                         th'[u].batch[i].sport = Strip(c.req.sport_label.v)]_vars

-----------------------------------------------------------------------------
(* The paged board view and the export *)

\* the characters of the model's strings in the order of their code points
AsciiOrder ==
    <<" ", "!", "+", ",", "-", "0", "1", "2", "3", "4", "5", "6", "7", "8", "9", ":">>
        \o UpperChars \o <<"_">> \o LowerChars

CodePoint(c) == CHOOSE i \in 1..Len(AsciiOrder) : AsciiOrder[i] = c

\* Python's (a < b) for strings
RECURSIVE TextLess(_, _)
TextLess(a, b) ==
    IF b = <<>> THEN FALSE
    ELSE IF a = <<>> THEN TRUE
    ELSE IF Head(a) = Head(b) THEN TextLess(Tail(a), Tail(b))
    ELSE CodePoint(Head(a)) < CodePoint(Head(b))

\* the suffix of a timestamp as text
TzText(z) ==
    CASE z = "" -> <<>>
      [] z = "Z" -> <<"Z">>
      [] z = "+00:00" -> <<"+", "0", "0", ":", "0", "0">>
      [] z = "+01:00" -> <<"+", "0", "1", ":", "0", "0">>
      [] z = "-01:00" -> <<"-", "0", "1", ":", "0", "0">>

\* (p.get("game_time") or ""): the stored string; of a timestamp, the part after the
\* date, which all timestamps of the model share
GameTimeText(gt) ==
    CASE gt.kind \in {"none", "empty"} -> <<>>
      [] gt.kind = "text" -> <<"T", "B", "D">>
      [] gt.kind = "iso" ->
            (IF gt.wall < 10 THEN <<"0">> ELSE <<>>) \o NatText(gt.wall)
                \o <<":", "0", "0">> \o TzText(gt.tz)

\* the sort key of p is smaller than the sort key of q: the tuples
\* ((sport or ""), (game_time or ""), (player or "")) compared
KeyLess(p, q) ==
    IF p.sport # q.sport THEN TextLess(p.sport, q.sport)
    ELSE IF GameTimeText(p.game_time) # GameTimeText(q.game_time)
         THEN TextLess(GameTimeText(p.game_time), GameTimeText(q.game_time))
    ELSE TextLess(p.player, q.player)

\* list.sort(key=...): a stable sort
RECURSIVE Insert(_, _)
Insert(sorted, p) ==
    IF sorted = <<>> THEN <<p>>
    ELSE IF KeyLess(p, Head(sorted)) THEN <<p>> \o sorted
    ELSE <<Head(sorted)>> \o Insert(Tail(sorted), p)

RECURSIVE SortedByKey(_)
SortedByKey(list) ==
    IF list = <<>> THEN <<>>
    ELSE Insert(SortedByKey(SubSeq(list, 1, Len(list) - 1)), list[Len(list)])

\* str.split(sep)
RECURSIVE Split(_, _)
Split(s, sep) ==
    IF \E i \in 1..Len(s) : s[i] = sep
    THEN LET i == CHOOSE j \in 1..Len(s) : s[j] = sep /\ \A k \in 1..(j - 1) : s[k] # sep
         IN  <<SubSeq(s, 1, i - 1)>> \o Split(SubSeq(s, i + 1, Len(s)), sep)
    ELSE <<s>>

\* [t.strip().lower() for t in tiers_str.split("+") if t.strip()]
TierTokens(tiers_str) ==
    LET parts == Split(tiers_str, "+")
    IN  SelectSeq([i \in 1..Len(parts) |-> Lower(Strip(parts[i]))], LAMBDA t : t # <<>>)

\* the tier_set of _filter_props_for_board: an HTTPException(400), None (any tier),
\* or the set of tiers asked for; tiers_str is None or a string
TierSet_KeepsUnknown(tiers_str) ==
    IF OrEmpty(tiers_str) = <<>> THEN [err |-> FALSE, any |-> TRUE, tiers |-> {}]
    ELSE LET parts == TierTokens(tiers_str.v)
         IN  IF parts = <<>> THEN [err |-> TRUE, any |-> FALSE, tiers |-> {}]
             ELSE [err |-> FALSE, any |-> FALSE,
                   tiers |-> {parts[i] : i \in 1..Len(parts)}]

TierSet(tiers_str) ==
    IF OrEmpty(tiers_str) = <<>> THEN [err |-> FALSE, any |-> TRUE, tiers |-> {}]
    ELSE LET parts == TierTokens(tiers_str.v)
         IN  IF \E i \in 1..Len(parts) : parts[i] \notin ALLOWED_TIERS
             THEN [err |-> TRUE, any |-> FALSE, tiers |-> {}]
             ELSE IF parts = <<>> THEN [err |-> TRUE, any |-> FALSE, tiers |-> {}]
             ELSE [err |-> FALSE, any |-> FALSE,
                   tiers |-> {parts[i] : i \in 1..Len(parts)}]

all == <<"a", "l", "l">>

\* _filter_props_for_board after its tier_set is built and get_current_props has
\* returned all_props
_filter_props_for_board(sport_in, tier_set, all_props) ==
    LET sport == Lower(sport_in)
        by_sport == IF sport \in {<<>>, all} THEN all_props
                    ELSE SelectSeq(all_props, LAMBDA p : get_prop_sport_slug(p) = sport)
        by_tier == IF tier_set.any THEN by_sport
                   ELSE SelectSeq(by_sport, LAMBDA p : Lower(p.tier) \in tier_set.tiers)
    IN  SortedByKey(by_tier)

\* str.replace(",", " ").replace("\n", " ").strip()
_clean_csv_val(s) == Strip([i \in 1..Len(s) |-> IF s[i] \in {",", "\n"} THEN " " ELSE s[i]])

\* "_".join(s.split()) of a string without leading or trailing whitespace
RECURSIVE JoinWords(_)
JoinWords(s) ==
    IF s = <<>> THEN <<>>
    ELSE IF Head(s) \notin SpaceChars THEN <<Head(s)>> \o JoinWords(Tail(s))
    ELSE IF Head(Tail(s)) \in SpaceChars THEN JoinWords(Tail(s))
    ELSE <<"_">> \o JoinWords(Tail(s))

_model_csv_val(s) == JoinWords(_clean_csv_val(s))

\* str(p.get("game_time", "")): None prints as "None"
GameTimeCell(gt) == IF gt.kind = "none" THEN <<"N", "o", "n", "e">> ELSE GameTimeText(gt)

\* one row of the page text and of the export text: the cells of a record (team and
\* opponent, which the records of the model do not carry, are left out)
ModelRow(p) ==
    [sport |-> _model_csv_val(p.sport), player |-> p.player, stat |-> p.stat,
     line |-> p.line, tier |-> _model_csv_val(p.tier),
     game_time |-> _model_csv_val(GameTimeCell(p.game_time))]

ExportRow(p) ==
    [sport |-> _clean_csv_val(p.sport), player |-> p.player, stat |-> p.stat,
     line |-> p.line, tier |-> _clean_csv_val(p.tier),
     game_time |-> _clean_csv_val(GameTimeCell(p.game_time))]

Header == "sport,player,team,opponent,stat,line,tier,game_time"

\* a response text: the header line, the rows that follow it, each after a "\n",
\* and whether a "\n" ends the text
NoText == [header |-> "", rows |-> <<>>, newline |-> FALSE]
HeaderOnly == [header |-> Header, rows |-> <<>>, newline |-> TRUE]
JoinedLines(rows) == [header |-> Header, rows |-> rows, newline |-> FALSE]

\* total_pages of _build_model_page_text
TotalPages_RoundsDown(total, page_size) == total \div page_size

TotalPages(total, page_size) == (total + page_size - 1) \div page_size

\* filtered[start:end] of _build_model_page_text
PageProps(filtered, page, page_size) ==
    LET start == (page - 1) * page_size
        end == start + page_size
    IN  SubSeq(filtered, start + 1, IF end < Len(filtered) THEN end ELSE Len(filtered))

\* _build_model_page_text after get_current_props has returned all_props: the status,
\* the text and, for a 404, the total_pages of its detail
PageOutcome(status, text, total_pages) ==
    [status |-> status, text |-> text, total_pages |-> total_pages]

_build_model_page_text_Empty404(q, all_props) ==
    LET filtered == _filter_props_for_board(q.sport, q.tier_set, all_props)
        total == Len(filtered)
        total_pages == TotalPages(total, q.page_size)
    IN  IF q.page > total_pages THEN PageOutcome(404, NoText, total_pages)
        ELSE PageOutcome(200, JoinedLines([i \in 1..Len(PageProps(filtered, q.page, q.page_size))
                                           |-> ModelRow(PageProps(filtered, q.page, q.page_size)[i])]), 0)

_build_model_page_text(q, all_props) ==
    LET filtered == _filter_props_for_board(q.sport, q.tier_set, all_props)
        total == Len(filtered)
        total_pages == TotalPages(total, q.page_size)
        page_props == PageProps(filtered, q.page, q.page_size)
    IN  IF total = 0 THEN PageOutcome(200, HeaderOnly, 0)
        ELSE IF q.page > total_pages THEN PageOutcome(404, NoText, total_pages)
        ELSE PageOutcome(200, JoinedLines([i \in 1..Len(page_props) |-> ModelRow(page_props[i])]), 0)

\* page_size of model_board_paged when the query string names none
DefaultPageSize == 150

\* the requests GET /model-board/{sport}/page/{page}?page_size=..&tiers=..: the
\* tiers parameter is "goblin+ Standard", "gold", "+" or empty
TiersInputs ==
    {<<>>,
     <<"g", "o", "b", "l", "i", "n", "+", " ", "S", "t", "a", "n", "d", "a", "r", "d">>,
     <<"g", "o", "l", "d">>,
     <<"+">>}

PageInputs == 0..3
PageSizeInputs == {1, 2}

\* model_board_paged hands (tiers or None) to _build_model_page_text
BoardQuery(sport, tiers, page, page_size) ==
    [sport |-> sport, tiers |-> tiers, page |-> page, page_size |-> page_size,
     tier_set |-> TierSet(IF tiers = <<>> THEN None ELSE Some(tiers))]

BoardQueries ==
    {BoardQuery(sport, tiers, page, page_size) :
        sport \in {all, <<"N", "B", "A">>, <<"x", "y", "z">>},
        tiers \in {t \in TiersInputs : ~TierSet(Some(t)).err},
        page \in PageInputs, page_size \in PageSizeInputs}
    \cup {BoardQuery(<<"N", "B", "A">>, tiers, page, 2) :
            tiers \in {t \in TiersInputs : TierSet(Some(t)).err}, page \in {0, 1}}

\* the body of POST /export-data: sports is a list of strings or another value,
\* tiers a list of strings, max as a line is (absent, a number, a string)
NotAList == [islist |-> FALSE, items |-> <<>>]
ListOf(items) == [islist |-> TRUE, items |-> items]

ExportPayload(sports, tiers, max) == [sports |-> sports, tiers |-> tiers, max |-> max]

MaxInputs ==
    {AbsentLine, NumberLine(0), NumberLine(0 - 1), TextLine, NumberLine(1), NumericTextLine(2)}

ExportPayloads ==
    {ExportPayload(sports, <<>>, AbsentLine) :
        sports \in {NotAList, ListOf(<<>>), ListOf(<<<<"x", "y", "z">>>>)}}
    \cup {ExportPayload(ListOf(<<<<"N", "B", "A">>, <<"x", "y", "z">>, <<"n", "f", "l">>>>), tiers, max) :
            tiers \in {<<>>, <<<<"G", "o", "b", "l", "i", "n">>, <<"d", "e", "m", "o", "n">>>>},
            max \in MaxInputs}

\* max_props of export_data when the body names none, or an unusable one
DefaultMax == 300

\* int(value) of a JSON number or string, None where it raises
ToInt(value) ==
    IF value.kind \in {"number", "numeric_text"} THEN Number(value.n) ELSE NoNumber

\* max_props after (payload.get("max") or 300), int() and the test (<= 0)
MaxProps_KeepsNegative(max) ==
    LET given == IF max.kind = "absent" \/ (max.kind = "number" /\ max.n = 0)
                 THEN NumberLine(DefaultMax) ELSE max
    IN  IF ~ToInt(given).some THEN DefaultMax
        ELSE IF given.n = 0 THEN DefaultMax
        ELSE given.n

MaxProps(max) ==
    LET given == IF max.kind = "absent" \/ (max.kind = "number" /\ max.n = 0)
                 THEN NumberLine(DefaultMax) ELSE max
    IN  IF ~ToInt(given).some THEN DefaultMax
        ELSE IF given.n <= 0 THEN DefaultMax
        ELSE given.n

\* valid_keys of export_data
ValidKeys(sports) ==
    {k \in SportKeys : \E i \in 1..Len(sports.items) : Lower(sports.items[i]) = k}

\* export_data raises HTTPException(400)
ExportRejected(payload) ==
    \/ ~payload.sports.islist
    \/ payload.sports.items = <<>>
    \/ ValidKeys(payload.sports) = {}

\* tier_set of export_data
ExportTierSet(tiers) ==
    LET given == {Lower(tiers[i]) : i \in {j \in 1..Len(tiers) : tiers[j] # <<>>}}
    IN  IF given = {} THEN ALLOWED_TIERS ELSE given

\* the records of all_props that export_data selects, sorted
ExportFiltered(payload, all_props) ==
    LET names == {Lower(SPORTS[k].name) : k \in ValidKeys(payload.sports)}
        tier_set == ExportTierSet(payload.tiers)
    IN  SortedByKey(SelectSeq(all_props,
                              LAMBDA p : Lower(p.sport) \in names /\ Lower(p.tier) \in tier_set))

\* filtered[:max_props]
Truncated_OneMore(filtered, max_props) ==
    IF Len(filtered) > max_props THEN SubSeq(filtered, 1, max_props + 1) ELSE filtered

Truncated(filtered, max_props) ==
    IF Len(filtered) > max_props THEN SubSeq(filtered, 1, max_props) ELSE filtered

\* entries whose projections carry a tier, and one of another player
rowBob == RowOf("o", NoGameTime, <<"7">>, NoNumber, "object", NumberLine(5), "Points", Bob, "")
rowGoblin == [Row("q", NoGameTime, <<"7">>) EXCEPT !.odds_type = Some(<<"G", "o", "b", "l", "i", "n">>)]
rowDemon ==
    [Row("r", IsoGameTime(2, "Z"), <<"9">>) EXCEPT !.odds_type = Some(<<" ", "d", "e", "m", "o", "n">>)]

\* the uploads that fill the board the views are taken of
BoardRequests ==
    {[sport |-> nba, sport_label |-> None, raw |-> PrizePicksRaw(<<rowB, rowBob, rowGoblin, rowA>>)],
     [sport |-> nfl, sport_label |-> None, raw |-> PrizePicksRaw(<<rowDemon>>)]}

BoardCalls == {Handled(req) : req \in BoardRequests}

\* PlainTextResponse(text) of model_board_paged, or the HTTPException it raised; req
\* and seen record the query and the list get_current_props returned to it
BoardResponse(q, now, all_props, outcome) ==
    [kind |-> "board", status |-> outcome.status, now |-> now, result |-> outcome.text,
     count |-> 0, total |-> outcome.total_pages, again |-> FALSE,
     req |-> q, seen |-> all_props]

\* the {"text", "count"} body of export_data, or the HTTPException it raised
ExportResponse(payload, now, all_props, status, text, count) ==
    [kind |-> "export", status |-> status, now |-> now, result |-> text,
     count |-> count, total |-> 0, again |-> FALSE,
     req |-> payload, seen |-> all_props]

\* get_current_props while no other request is handled: the two writes of
\* save_props are one step
GetCurrentProps ==
    LET raw == load_file_props_raw_or_empty(primary, backup)
    IN  IF raw # <<>> /\ Changed(raw, clock)
        THEN /\ primary' = save_text(Filtered(raw, clock))
             /\ backup' = save_text(Filtered(raw, clock))
        ELSE UNCHANGED <<primary, backup>>

\* the list get_current_props returns
AllProps ==
    LET raw == load_file_props_raw_or_empty(primary, backup)
    IN  CurrentProps(raw, Filtered(raw, clock))

\* GET /model-board/{sport}/page/{page}
ModelBoardPaged(r, q) ==
    /\ r \in Readers
    /\ th[r].pc = "idle"
    /\ Alone(r)
    /\ UNCHANGED <<clock, th, faults, latest, clobbered>>
    /\ IF q.page < 1 \/ q.tier_set.err
       THEN /\ last' = BoardResponse(q, clock, <<>>, PageOutcome(400, NoText, 0))
            /\ UNCHANGED <<primary, backup>>
       ELSE /\ GetCurrentProps
            /\ last' = BoardResponse(q, clock, AllProps, _build_model_page_text(q, AllProps))

\* POST /export-data
ExportData(u, payload) ==
    /\ u \in Uploaders
    /\ th[u].pc = "idle"
    /\ Alone(u)
    /\ UNCHANGED <<clock, th, faults, latest, clobbered>>
    /\ IF ExportRejected(payload)
       THEN /\ last' = ExportResponse(payload, clock, <<>>, 400, NoText, 0)
            /\ UNCHANGED <<primary, backup>>
       ELSE LET filtered == Truncated(ExportFiltered(payload, AllProps), MaxProps(payload.max))
            IN  /\ GetCurrentProps
                /\ last' = ExportResponse(payload, clock, AllProps, 200,
                                          JoinedLines([i \in 1..Len(filtered) |-> ExportRow(filtered[i])]),
                                          Len(filtered))

BoardNext ==
    \/ \E u \in Uploaders, call \in BoardCalls : Alone(u) /\ UploadBegin(u, call)
    \/ \E u \in Uploaders : UploadRecount(u)
    \/ \E r \in Readers, q \in BoardQueries : ModelBoardPaged(r, q)
    \/ \E u \in Uploaders, payload \in ExportPayloads : ExportData(u, payload)
    \/ \E p \in Slots : SaveOpen(p)
    \/ \E p \in Slots : SavePrimary(p)
    \/ \E p \in Slots : SaveBackup(p)
    \/ Tick

\* one request at a time: uploads, paged views of the board and exports
BoardSpec == Init /\ [][BoardNext]_vars

-----------------------------------------------------------------------------
(* C16: pagination boundaries *)

Min(a, b) == IF a < b THEN a ELSE b

\* the last response answers a paged view whose page number and tiers were accepted
PageAnswered == last.kind = "board" /\ last.req.page >= 1 /\ ~last.req.tier_set.err

\* the filtered, sorted set that the answered view pages through
FilteredOf(resp) == _filter_props_for_board(resp.req.sport, resp.req.tier_set, resp.seen)

\* ceil(n / s) for n >= 1 and s >= 1
Ceil(n, s) == CHOOSE t \in 1..n : t * s >= n /\ (t - 1) * s < n

\* the rows of pages 1..t of the sorted set, one page after the other
RECURSIVE PagesUpTo(_, _, _)
PagesUpTo(sorted, t, s) ==
    IF t = 0 THEN <<>>
    ELSE PagesUpTo(sorted, t - 1, s) \o PageProps(sorted, t, s)

\* 151 records at page size 150: 2 pages, of 150 records and of 1 record
DocumentedPages ==
    LET records == [i \in 1..151 |-> i]
    IN  /\ TotalPages(151, DefaultPageSize) = 2
        /\ Len(PageProps(records, 1, DefaultPageSize)) = 150
        /\ PageProps(records, 2, DefaultPageSize) = <<151>>
        /\ 3 > TotalPages(151, DefaultPageSize)

\* C16: for a filtered, sorted set of N >= 1 records and a page size S >= 1, with
\* T = ceil(N/S), page k with 1 <= k <= T is answered 200 with exactly the records at
\* sorted positions (k-1)*S+1 .. min(k*S, N), so that pages 1..T together hold every
\* record exactly once, and a page k > T is answered 404 with total_pages=T in its
\* detail; 151 records at size 150 make pages of 150 and of 1 record and a 404 with
\* total_pages=2.
C16_PaginationBoundaries ==
    /\ DocumentedPages
    /\ PageAnswered /\ FilteredOf(last) # <<>> =>
          LET sorted == FilteredOf(last)
              N == Len(sorted)
              S == last.req.page_size
              k == last.req.page
              T == Ceil(N, S)
          IN  /\ PagesUpTo(sorted, T, S) = sorted
              /\ IF k <= T
                 THEN /\ last.status = 200
                      /\ last.result.header = Header
                      /\ last.result.rows =
                            [i \in 1..(Min(k * S, N) - (k - 1) * S) |->
                                ModelRow(sorted[(k - 1) * S + i])]
                 ELSE /\ last.status = 404
                      /\ last.total = T

\* page 2 of 3 records at page size 2 was answered with its one record
C16_Witness ==
    /\ PageAnswered
    /\ Len(FilteredOf(last)) = 3
    /\ last.req.page_size = 2
    /\ last.req.page = 2
    /\ last.status = 200
    /\ Len(last.result.rows) = 1

-----------------------------------------------------------------------------
(* C17: input errors of the paged view *)

\* the records of the list whose sport slug the view names
OfSport(list, sport) ==
    IF Lower(sport) \in {<<>>, all} THEN list
    ELSE SelectSeq(list, LAMBDA p : get_prop_sport_slug(p) = Lower(sport))

\* C17: of the paged view, a tiers parameter with a token outside {standard, goblin,
\* demon} is answered 400 (a token is read without its surrounding blanks and in
\* lower case); a non-empty tiers parameter that yields no token after splitting on
\* '+' is answered 400; a page number below 1 is answered 400; a page number above
\* the total page count of a non-empty filtered set is answered 404; an absent or
\* empty tiers parameter is no error and selects the records of every tier.
C17_PagedViewInputErrors ==
    last.kind = "board" =>
        LET q == last.req
            tokens == TierTokens(q.tiers)
            unknown_token == \E i \in 1..Len(tokens) : tokens[i] \notin ALLOWED_TIERS
        IN  /\ unknown_token => last.status = 400
            /\ q.tiers # <<>> /\ tokens = <<>> => last.status = 400
            /\ q.page < 1 => last.status = 400
            /\ /\ q.page >= 1 /\ ~unknown_token /\ (q.tiers = <<>> \/ tokens # <<>>)
               /\ FilteredOf(last) # <<>>
               /\ q.page > Ceil(Len(FilteredOf(last)), q.page_size)
               => last.status = 404
            /\ q.tiers = <<>> /\ q.page >= 1 =>
                  /\ last.status # 400
                  /\ Len(FilteredOf(last)) = Len(OfSport(last.seen, q.sport))

\* a view naming the tier "gold" on an existing page of a non-empty board was
\* answered 400
C17_Witness ==
    /\ last.kind = "board"
    /\ last.req.page = 1
    /\ \E i \in 1..Len(TierTokens(last.req.tiers)) :
          TierTokens(last.req.tiers)[i] \notin ALLOWED_TIERS
    /\ Stored # <<>>
    /\ last.status = 400

-----------------------------------------------------------------------------
(* C18: an empty result is not an error *)

\* C18: when the sport and tier filter of a paged view with valid tiers selects no
\* live record (the slug is unknown, the board is empty, or no record has the tier),
\* every page number n >= 1 is answered 200 with exactly the header line
\* 'sport,player,team,opponent,stat,line,tier,game_time', never 404.
C18_EmptyResultIsHeaderOnly ==
    PageAnswered /\ FilteredOf(last) = <<>> =>
        /\ last.status = 200
        /\ last.result.header = "sport,player,team,opponent,stat,line,tier,game_time"
        /\ last.result.rows = <<>>

\* page 3 of an unknown sport was answered with the header while the board holds records
C18_Witness ==
    /\ PageAnswered
    /\ last.req.page = 3
    /\ last.req.sport = <<"x", "y", "z">>
    /\ last.seen # <<>>
    /\ FilteredOf(last) = <<>>
    /\ last.status = 200

-----------------------------------------------------------------------------
(* C19: the export cap *)

\* the list is in the order of (sport, game_time, player)
InKeyOrder(list) == \A i, j \in 1..Len(list) : i < j => ~KeyLess(list[j], list[i])

\* the live records that match the sports and tiers an export selects
Matching(payload, seen) ==
    {i \in 1..Len(seen) :
        /\ \E k \in ValidKeys(payload.sports) : Lower(seen[i].sport) = Lower(SPORTS[k].name)
        /\ Lower(seen[i].tier) \in ExportTierSet(payload.tiers)}

\* C19: an export with effective maximum M over F live records matching the selected
\* sports and tiers returns count = min(M, F) and a text made of the header and
\* exactly count rows, the first count records of the matching set sorted by
\* (sport, game_time, player).
C19_ExportCap ==
    last.kind = "export" /\ last.status = 200 =>
        LET M == MaxProps(last.req.max)
            sorted == ExportFiltered(last.req, last.seen)
            F == Cardinality(Matching(last.req, last.seen))
            count == Min(M, F)
        IN  /\ Len(sorted) = F
            /\ {sorted[i] : i \in 1..F} = {last.seen[i] : i \in Matching(last.req, last.seen)}
            /\ InKeyOrder(sorted)
            /\ last.count = count
            /\ last.result.header = Header
            /\ last.result.rows = [i \in 1..count |-> ExportRow(sorted[i])]

\* an export capped at 2 returned the first 2 of more than 2 matching records
C19_Witness ==
    /\ last.kind = "export"
    /\ last.status = 200
    /\ MaxProps(last.req.max) = 2
    /\ Cardinality(Matching(last.req, last.seen)) > 2
    /\ last.count = 2
    /\ Len(last.result.rows) = 2

-----------------------------------------------------------------------------
(* C20: input handling of the export *)

\* the 'max' of the body is absent, zero, negative or not convertible to an integer
UnusableMax(max) ==
    \/ max.kind = "absent"
    \/ max.kind = "text"
    \/ max.kind = "number" /\ max.n <= 0

\* C20: an export is rejected with 400 when 'sports' is not a list, is empty, or
\* holds no registry sport key (keys are read in lower case), and is answered 200
\* otherwise; a 'max' that is absent, zero, negative or not convertible to an integer
\* is replaced by 300 and causes no error; an empty tier list selects all three tiers.
C20_ExportInputHandling ==
    last.kind = "export" =>
        LET payload == last.req
            no_key == \A i \in 1..Len(payload.sports.items) :
                          Lower(payload.sports.items[i]) \notin SportKeys
            of_sports == {i \in 1..Len(last.seen) :
                            \E k \in ValidKeys(payload.sports) :
                                Lower(last.seen[i].sport) = Lower(SPORTS[k].name)}
        IN  /\ last.status = IF ~payload.sports.islist \/ payload.sports.items = <<>> \/ no_key
                             THEN 400 ELSE 200
            /\ last.status = 200 /\ UnusableMax(payload.max) =>
                  /\ MaxProps(payload.max) = 300
                  /\ last.count = Min(300, Cardinality(Matching(payload, last.seen)))
            /\ last.status = 200 /\ payload.tiers = <<>> =>
                  /\ ExportTierSet(payload.tiers) = {standard, goblin, demon}
                  /\ Matching(payload, last.seen) = of_sports

\* an export with a negative 'max' returned every matching record, of more than one tier
C20_Witness ==
    /\ last.kind = "export"
    /\ last.status = 200
    /\ last.req.max.kind = "number" /\ last.req.max.n < 0
    /\ last.req.tiers = <<>>
    /\ last.count >= 2
    /\ \E i, j \in 1..Len(last.seen) : last.seen[i].tier # last.seen[j].tier
    /\ last.count = Cardinality(Matching(last.req, last.seen))

-----------------------------------------------------------------------------
(* C21: the player name of an Underdog line without selection_header *)

JaneDoe == <<"J", "a", "n", "e", " ", "D", "o", "e">>
Points == <<" ", "P", "o", "i", "n", "t", "s">>

\* over_under titles: 'Jane Doe O/U Points', 'Jane Doe Points O/U', 'Jane O/U',
\* ' O/U Points', 'Jane Doe', and no title
TitleInputs ==
    {Some(JaneDoe \o OverUnder \o Points),
     Some(JaneDoe \o Points \o OverUnder),
     Some(SubSeq(JaneDoe, 1, 4) \o OverUnder),
     Some(OverUnder \o Points),
     Some(JaneDoe),
     None}

\* an active Underdog line of an NBA game with a stat and a stat_value, with the
\* given selection_header of its options and title of its over_under
TitledLine(id, header, title) ==
    [RowOf(id, NoGameTime, <<"N", "B", "A">>, NoNumber, "object", NumberLine(5), "Points",
           header, "active") EXCEPT !.title = title]

\* Underdog-shaped NBA uploads of one line or of two lines
TitleRequests ==
    [sport : {nba}, sport_label : {None},
     raw : {UnderdogRaw(<<TitledLine("j", header, title)>>) :
                header \in {<<>>, Ann}, title \in TitleInputs}
            \cup {UnderdogRaw(<<TitledLine("j", <<>>, title), rowLine>>) : title \in TitleInputs}]

TitleCalls == {Handled(req) : req \in TitleRequests}

TitleNext ==
    \/ \E u \in Uploaders, call \in TitleCalls : Alone(u) /\ UploadBegin(u, call)
    \/ \E u \in Uploaders : UploadRecount(u)
    \/ \E r \in Readers : Alone(r) /\ ReadBegin(r)
    \/ \E p \in Slots : SaveOpen(p)
    \/ \E p \in Slots : SavePrimary(p)
    \/ \E p \in Slots : SaveBackup(p)
    \/ Tick

\* one request at a time, Underdog uploads whose lines name their player in the
\* selection_header or in the title
TitleSpec == Init /\ [][TitleNext]_vars

\* the title with the ' O/U' marker and everything after it removed; empty when the
\* title has no marker
NameOfTitle(title) ==
    IF Contains(OrEmpty(title), OverUnder) THEN Strip(BeforeOverUnder(OrEmpty(title)))
    ELSE <<>>

\* the uploads whose first line has no selection_header
HeaderlessCalls ==
    {c \in TitleCalls : c.req.raw.rows[1].player = <<>>}

\* C21: an active Underdog line with a stat and a parseable stat_value whose options
\* carry no selection_header yields a record whose player is the title of the
\* over_under with the ' O/U' marker and everything after it removed ('Jane Doe O/U
\* Points' gives 'Jane Doe'), and is skipped only when the title gives no name.
C21_TitleFallback ==
    [][\A u \in Uploaders, c \in HeaderlessCalls :
          UploadBegin(u, c) =>
              LET name == NameOfTitle(c.req.raw.rows[1].title)
              IN  /\ th'[u].pc = "p_open"
                  /\ Len(th'[u].batch) = Len(c.req.raw.rows) - (IF name = <<>> THEN 1 ELSE 0)
                  /\ name # <<>> =>
                        /\ th'[u].batch[1].id = "j"
                        /\ th'[u].batch[1].player = name]_vars

-----------------------------------------------------------------------------
(* C22: tier extraction *)

\* attribute values: 'Goblin', 'DEMON_BOOST', 'Standard', 'weird', 'demon goblin'
TierValues ==
    {<<"G", "o", "b", "l", "i", "n">>,
     <<"D", "E", "M", "O", "N", "_", "B", "O", "O", "S", "T">>,
     <<"S", "t", "a", "n", "d", "a", "r", "d">>,
     <<"w", "e", "i", "r", "d">>,
     <<"d", "e", "m", "o", "n", " ", "g", "o", "b", "l", "i", "n">>}

\* the four attributes of a projection: none set, one set, or two set, the first of
\* them possibly to the empty string
TierAttrs ==
    LET unset == [odds_Type |-> None, odds_type |-> None, oddsType |-> None, tier |-> None]
    IN  {unset}
        \cup {[unset EXCEPT !.odds_Type = Some(v)] : v \in TierValues}
        \cup {[unset EXCEPT !.odds_type = Some(v)] : v \in TierValues}
        \cup {[unset EXCEPT !.oddsType = Some(v)] : v \in TierValues}
        \cup {[unset EXCEPT !.tier = Some(v)] : v \in TierValues}
        \cup {[unset EXCEPT !.odds_Type = Some(v), !.tier = Some(w)] :
                v \in {<<>>, <<"w", "e", "i", "r", "d">>, <<"G", "o", "b", "l", "i", "n">>},
                w \in {<<"D", "E", "M", "O", "N", "_", "B", "O", "O", "S", "T">>}}
        \cup {[unset EXCEPT !.odds_type = Some(<<"d", "e", "m", "o", "n">>),
                            !.oddsType = Some(<<"G", "o", "b", "l", "i", "n">>)]}

\* the entry with the four attributes set as in attrs
WithAttrs(r, attrs) ==
    [r EXCEPT !.odds_Type = attrs.odds_Type, !.odds_type = attrs.odds_type,
              !.oddsType = attrs.oddsType, !.tier = attrs.tier]

\* PrizePicks-shaped NBA uploads of one projection, and Underdog-shaped NFL uploads of
\* one line that carries the same attributes
TierRequests ==
    [sport : {nba}, sport_label : {None},
     raw : {PrizePicksRaw(<<WithAttrs(rowA, attrs)>>) : attrs \in TierAttrs}]
    \cup [sport : {nfl}, sport_label : {None},
          raw : {UnderdogRaw(<<WithAttrs(rowV, attrs)>>) : attrs \in TierAttrs}]

TierCalls == {Handled(req) : req \in TierRequests}

TierNext ==
    \/ \E u \in Uploaders, call \in TierCalls : Alone(u) /\ UploadBegin(u, call)
    \/ \E u \in Uploaders : UploadRecount(u)
    \/ \E r \in Readers : Alone(r) /\ ReadBegin(r)
    \/ \E p \in Slots : SaveOpen(p)
    \/ \E p \in Slots : SavePrimary(p)
    \/ \E p \in Slots : SaveBackup(p)
    \/ Tick

\* one request at a time, uploads whose entries carry tier attributes
TierSpec == Init /\ [][TierNext]_vars

\* the first non-empty of odds_Type, odds_type, oddsType, tier, in lower case
FirstNonEmpty(r) ==
    LET values == <<OrEmpty(r.odds_Type), OrEmpty(r.odds_type), OrEmpty(r.oddsType),
                    OrEmpty(r.tier)>>
        set == {i \in 1..4 : values[i] # <<>>}
    IN  IF set = {} THEN <<>>
        ELSE Lower(values[CHOOSE i \in set : \A j \in set : i <= j])

\* the uploads, each with the tier the claim gives its record
TierVerdicts ==
    {[call |-> call,
      tier |-> IF call.req.raw.ud THEN standard
               ELSE IF Contains(FirstNonEmpty(call.req.raw.rows[1]), goblin) THEN goblin
               ELSE IF Contains(FirstNonEmpty(call.req.raw.rows[1]), demon) THEN demon
               ELSE standard] : call \in TierCalls}

\* every record of the list has one of the three tiers, an Underdog record standard
TiersAllowed(list) ==
    \A i \in 1..Len(list) :
        /\ list[i].tier \in {standard, goblin, demon}
        /\ list[i].source = "underdog" => list[i].tier = standard

\* C22: the tier of a PrizePicks record is derived from the first non-empty of
\* odds_Type, odds_type, oddsType, tier, without regard to case: goblin if it contains
\* 'goblin', else demon if it contains 'demon', else standard (unrecognized values
\* and absence included); every record of the two files has one of the three tiers,
\* and every Underdog record has tier standard.
C22_TierExtraction ==
    [][/\ \A u \in Uploaders, v \in TierVerdicts :
             UploadBegin(u, v.call) =>
                 /\ th'[u].pc = "p_open"
                 /\ Len(th'[u].batch) = 1
                 /\ th'[u].batch[1].tier = v.tier
       /\ TiersAllowed(primary'.data)
       /\ TiersAllowed(backup'.data)]_vars

\* the board holds the record of a projection whose tier attribute names both demon
\* and goblin, as a goblin, and the record of an Underdog line that carries
\* 'Goblin', as a standard
C22_Witness ==
    /\ Quiescent
    /\ latest[nba].set /\ latest[nfl].set
    /\ \E c \in TierCalls :
          /\ c.req.raw.pp
          /\ c.req.raw.rows[1].tier = Some(<<"d", "e", "m", "o", "n", " ", "g", "o", "b", "l", "i", "n">>)
          /\ latest[nba].batch = c.new_props
    /\ \E i \in 1..Len(Stored) : Stored[i].source = "prizepicks" /\ Stored[i].tier = goblin
    /\ \E c \in TierCalls :
          /\ c.req.raw.ud
          /\ c.req.raw.rows[1].odds_type = Some(<<"G", "o", "b", "l", "i", "n">>)
          /\ latest[nfl].batch = c.new_props
    /\ \E i \in 1..Len(Stored) : Stored[i].source = "underdog" /\ Stored[i].tier = standard

-----------------------------------------------------------------------------
(* C23: the slug of a custom label *)

\* the characters labels are made of: a lower-case and an upper-case letter, a digit,
\* a blank, a hyphen and a punctuation mark
LabelChars == {"a", "B", "1", " ", "-", "!"}

MaxLabelLen == 3

TableTennis == <<"T", "a", "b", "l", "e", " ", "T", "e", "n", "n", "i", "s", "!">>

\* every label of at most MaxLabelLen characters, and 'Table Tennis!'
SlugLabels ==
    UNION {[1..n -> LabelChars] : n \in 0..MaxLabelLen} \cup {TableTennis}

\* a label that was handed in, or a label with the slug derived from it
Label(text) == [kind |-> "label", label |-> text, text |-> text]
Slugged(label, text) == [kind |-> "slug", label |-> label, text |-> text]

SlugInit ==
    /\ primary = Absent
    /\ backup = Absent
    /\ clock = 0
    /\ th = [p \in Slots |-> IdleSlot]
    /\ faults = 0
    /\ latest = [s \in Slugs |-> NotYetUploaded]
    /\ last \in {Label(l) : l \in SlugLabels}
    /\ clobbered = FALSE

\* sport_slug_from_label applied to the text at hand, a label or a slug
SlugFromLabel ==
    /\ last' = Slugged(last.text, sport_slug_from_label(last.text))
    /\ UNCHANGED <<primary, backup, clock, th, faults, latest, clobbered>>

SlugNext == SlugFromLabel

\* the derivation of slugs from labels, and from slugs
SlugSpec == SlugInit /\ [][SlugNext]_vars

\* the maximal runs of characters of [a-z0-9] in s, in order
RECURSIVE SlugRuns(_)
SlugRuns(s) ==
    IF s = <<>> THEN <<>>
    ELSE IF ~IsSlugChar(Head(s)) THEN SlugRuns(Tail(s))
    ELSE LET n == CHOOSE k \in 1..Len(s) :
                      /\ \A i \in 1..k : IsSlugChar(s[i])
                      /\ k < Len(s) => ~IsSlugChar(s[k + 1])
         IN  <<SubSeq(s, 1, n)>> \o SlugRuns(SubSeq(s, n + 1, Len(s)))

\* the runs joined by single hyphens
RECURSIVE Hyphenated(_)
Hyphenated(runs) ==
    IF runs = <<>> THEN <<>>
    ELSE IF Len(runs) = 1 THEN runs[1]
    ELSE runs[1] \o <<"-">> \o Hyphenated(Tail(runs))

\* C23: the slug of a label is the label in lower case with every maximal run of
\* characters outside [a-z0-9] replaced by one hyphen and the leading and trailing
\* hyphens removed, or 'unknown' when that is empty ('Table Tennis!' gives
\* 'table-tennis'); the slug of a slug is the slug itself, and no slug is empty.
C23_SlugDerivation ==
    /\ sport_slug_from_label(TableTennis)
          = <<"t", "a", "b", "l", "e", "-", "t", "e", "n", "n", "i", "s">>
    /\ last.kind = "slug" =>
          /\ last.text = IF Hyphenated(SlugRuns(Lower(last.label))) # <<>>
                         THEN Hyphenated(SlugRuns(Lower(last.label)))
                         ELSE <<"u", "n", "k", "n", "o", "w", "n">>
          /\ last.text # <<>>
          /\ sport_slug_from_label(last.text) = last.text

\* the slug of 'Table Tennis!' was derived again from itself and did not change
C23_Witness ==
    /\ last.kind = "slug"
    /\ last.label = <<"t", "a", "b", "l", "e", "-", "t", "e", "n", "n", "i", "s">>
    /\ last.text = last.label

-----------------------------------------------------------------------------
(* C24: the report of an accepted upload *)

\* slot u answers its upload with count c and total t
Reports(u, c, t) ==
    /\ th'[u].pc = "idle"
    /\ last'.kind = "upload"
    /\ last'.status = 200
    /\ last'.count = c
    /\ last'.total = t

\* C24: an accepted upload, handled alone, reports count equal to the number of
\* records of its normalized batch and total equal to the number of records of the
\* merged board that have not expired at the instant of the recount, which is the
\* number of records of both files when the request returns; total is smaller than
\* count when the batch itself holds already-expired records.
C24_UploadReport ==
    [][\A u \in Uploaders :
          /\ UploadRecount(u) =>
                LET live == Unexpired(Stored, clock)
                IN  IF Stored = live
                    THEN /\ Reports(u, Len(th[u].batch), Len(live))
                         /\ Len(primary'.data) = Len(live)
                         /\ UNCHANGED <<primary, backup>>
                    ELSE /\ th'[u].phase = "prune"
                         /\ th'[u].buf = live
                         /\ th'[u].batch = th[u].batch
          /\ th[u].phase = "prune" /\ SaveBackup(u) =>
                /\ Reports(u, Len(th[u].batch), Len(th[u].buf))
                /\ primary' = Holding(th[u].buf)
                /\ backup' = Holding(th[u].buf)]_vars

\* an upload whose batch of two records holds an expired one was answered with
\* count 2 and total 1, and the stored board holds one record
C24_Witness ==
    /\ Quiescent
    /\ last.kind = "upload"
    /\ last.status = 200
    /\ last.count = 2
    /\ last.total = 1
    /\ primary = backup
    /\ Len(Stored) = 1

-----------------------------------------------------------------------------
(* C25: no update in place *)

\* record x is put into the stored board by this step
Appears(x) == Occurs(x, Stored') /\ ~Occurs(x, Stored)

\* C25: in a run of uploads and reads handled one at a time from an empty store, a
\* record enters the stored board only as a record of the batch of an upload for its
\* own slug, when that upload saves its merge: no read, prune or upload for another
\* slug changes a field of a stored record or brings back a pruned one; and between
\* requests every stored record is, field for field, a record of the normalized
\* batch of the most recent accepted upload for its slug.
C25_NoUpdateInPlace ==
    [][/\ \A i \in 1..Len(Stored') :
             Appears(Stored'[i]) =>
                 \E u \in Uploaders :
                     /\ th[u].phase = "merge"
                     /\ SavePrimary(u)
                     /\ Occurs(Stored'[i], th[u].batch)
                     /\ Stored'[i].sport_slug = BatchSlug(u)
       /\ Quiescent' =>
             \A i \in 1..Len(Stored') :
                 Occurs(Stored'[i], latest'[Stored'[i].sport_slug].batch)]_vars

\* after a read, the board holds one record of the last NBA batch unchanged, lacks
\* another that was pruned, and holds a record of another slug
C25_Witness ==
    /\ Quiescent
    /\ last.kind = "read"
    /\ latest[nba].set
    /\ \E i \in 1..Len(latest[nba].batch) : Occurs(latest[nba].batch[i], Stored)
    /\ \E i \in 1..Len(latest[nba].batch) : ~Occurs(latest[nba].batch[i], Stored)
    /\ \E i \in 1..Len(Stored) : Stored[i].sport_slug # nba

-----------------------------------------------------------------------------
(* The HTML view of a page and the index of its links *)

\* a link to /model-board-view/{sport}/page/{page}?tiers={tiers}, or no link
NoLink == [some |-> FALSE, sport |-> <<>>, page |-> 0, tiers |-> <<>>]
Link(sport, page, tiers) == [some |-> TRUE, sport |-> sport, page |-> page, tiers |-> tiers]

\* what model_board_view_html answers: the status, the records of the page (each is
\* rendered as one table row), total_pages, and the two pager links
ViewOutcome(status, props, total_pages, prev, next) ==
    [status |-> status, props |-> props, total_pages |-> total_pages,
     prev |-> prev, next |-> next]

\* model_board_view_html after its tier_set is built and get_current_props has
\* returned all_props
model_board_view_html_Empty404(q, all_props) ==
    LET sport_slug == Lower(q.sport)
        filtered == _filter_props_for_board(sport_slug, q.tier_set, all_props)
        total == Len(filtered)
        total_pages == TotalPages(total, q.page_size)
        tier_param == Strip(q.tiers)
    IN  IF q.page < 1 THEN ViewOutcome(400, <<>>, 0, NoLink, NoLink)
        ELSE IF q.page > total_pages THEN ViewOutcome(404, <<>>, total_pages, NoLink, NoLink)
        ELSE ViewOutcome(200, PageProps(filtered, q.page, q.page_size), total_pages,
                         IF q.page > 1 THEN Link(sport_slug, q.page - 1, tier_param) ELSE NoLink,
                         IF q.page < total_pages THEN Link(sport_slug, q.page + 1, tier_param)
                         ELSE NoLink)

model_board_view_html(q, all_props) ==
    LET sport_slug == Lower(q.sport)
        filtered == _filter_props_for_board(sport_slug, q.tier_set, all_props)
        total == Len(filtered)
        total_pages == TotalPages(total, q.page_size)
        tier_param == Strip(q.tiers)
    IN  IF q.page < 1 THEN ViewOutcome(400, <<>>, 0, NoLink, NoLink)
        ELSE IF total = 0 THEN ViewOutcome(200, <<>>, 1, NoLink, NoLink)
        ELSE IF q.page > total_pages THEN ViewOutcome(404, <<>>, total_pages, NoLink, NoLink)
        ELSE ViewOutcome(200, PageProps(filtered, q.page, q.page_size), total_pages,
                         IF q.page > 1 THEN Link(sport_slug, q.page - 1, tier_param) ELSE NoLink,
                         IF q.page < total_pages THEN Link(sport_slug, q.page + 1, tier_param)
                         ELSE NoLink)

\* PAGE_SIZE of model_index
IndexPageSize == 150

\* counts of model_index: the number of records of all_props with the slug and tier
IndexCount(all_props, slug, t) ==
    Cardinality({i \in 1..Len(all_props) :
                    /\ Strip(all_props[i].sport) # <<>>
                    /\ get_prop_sport_slug(all_props[i]) = slug
                    /\ (IF Lower(all_props[i].tier) \in ALLOWED_TIERS
                        THEN Lower(all_props[i].tier) ELSE standard) = t})

\* the links model_index lists for the query (sport, tier)
model_index(sport, tier, all_props) ==
    LET tier_filter == Strip(Lower(tier))
        labelled == {get_prop_sport_slug(all_props[i]) :
                        i \in {j \in 1..Len(all_props) : Strip(all_props[j].sport) # <<>>}}
                    \ {<<>>}
        slugs == IF sport # <<>> THEN {Lower(sport)} \cap labelled ELSE labelled
    IN  UNION {UNION {{Link(slug, page_num, t) :
                          page_num \in 1..TotalPages(IndexCount(all_props, slug, t),
                                                     IndexPageSize)} :
                      t \in {x \in ALLOWED_TIERS : tier_filter = <<>> \/ x = tier_filter}} :
               slug \in slugs}

\* the requests GET /model-board-view/{sport}/page/{page}?page_size=..&tiers=..
ViewQueries ==
    {BoardQuery(sport, tiers, page, page_size) :
        sport \in {all, <<"N", "B", "A">>},
        tiers \in {<<>>, <<"g", "o", "b", "l", "i", "n", "+", " ", "S", "t", "a", "n", "d", "a", "r", "d">>},
        page \in PageInputs, page_size \in {1, 2, DefaultPageSize}}
    \cup {BoardQuery(<<"N", "B", "A">>, <<"g", "o", "l", "d">>, page, 2) : page \in {0, 1}}

\* the requests GET /model-index?sport=..&tier=..
IndexQueries ==
    [sport : {<<>>, <<"N", "B", "A">>}, tier : {<<>>, <<"G", "o", "b", "l", "i", "n">>}]

\* the uploads that fill the board: NBA and NFL projections, and an Underdog line
\* uploaded as extras under the label 'All'
ViewRequests ==
    BoardRequests
        \cup {[sport |-> extras, sport_label |-> Some(<<"A", "l", "l">>),
               raw |-> UnderdogRaw(<<rowV>>)]}

ViewCalls == {Handled(req) : req \in ViewRequests}

\* HTMLResponse of model_board_view_html, or the HTTPException it raised
ViewResponse(q, now, all_props, outcome) ==
    [kind |-> "view", status |-> outcome.status, now |-> now, result |-> outcome.props,
     count |-> 0, total |-> outcome.total_pages, again |-> FALSE,
     req |-> q, seen |-> all_props, prev |-> outcome.prev, next |-> outcome.next]

\* HTMLResponse of model_index
IndexResponse(q, now, all_props, links) ==
    [kind |-> "index", status |-> 200, now |-> now, result |-> links,
     count |-> 0, total |-> 0, again |-> FALSE, req |-> q, seen |-> all_props]

\* GET /model-board-view/{sport}/page/{page}: the board is filtered, and so loaded
\* and pruned, before the page number is looked at
ModelBoardView(r, q) ==
    /\ r \in Readers
    /\ th[r].pc = "idle"
    /\ Alone(r)
    /\ UNCHANGED <<clock, th, faults, latest, clobbered>>
    /\ IF q.tier_set.err
       THEN /\ last' = ViewResponse(q, clock, <<>>, ViewOutcome(400, <<>>, 0, NoLink, NoLink))
            /\ UNCHANGED <<primary, backup>>
       ELSE /\ GetCurrentProps
            /\ last' = ViewResponse(q, clock, AllProps, model_board_view_html(q, AllProps))

\* GET /model-index
ModelIndex(r, q) ==
    /\ r \in Readers
    /\ th[r].pc = "idle"
    /\ Alone(r)
    /\ UNCHANGED <<clock, th, faults, latest, clobbered>>
    /\ GetCurrentProps
    /\ last' = IndexResponse(q, clock, AllProps, model_index(q.sport, q.tier, AllProps))

ViewNext ==
    \/ \E u \in Uploaders, call \in ViewCalls : Alone(u) /\ UploadBegin(u, call)
    \/ \E u \in Uploaders : UploadRecount(u)
    \/ \E r \in Readers, q \in ViewQueries : ModelBoardView(r, q)
    \/ \E r \in Readers, q \in IndexQueries : ModelIndex(r, q)
    \/ \E p \in Slots : SaveOpen(p)
    \/ \E p \in Slots : SavePrimary(p)
    \/ \E p \in Slots : SaveBackup(p)
    \/ Tick

\* one request at a time: uploads, HTML views of pages and indexes of their links
ViewSpec == Init /\ [][ViewNext]_vars

-----------------------------------------------------------------------------
(* C26: the HTML view and the CSV endpoint agree *)

\* what GET /model-board/{sport}/page/{page} answers to the query on the same board
model_board_paged(q, all_props) ==
    IF q.page < 1 \/ q.tier_set.err THEN PageOutcome(400, NoText, 0)
    ELSE _build_model_page_text(q, all_props)

\* C26: for the same stored board, clock, sport, tiers, page and page_size, the HTML
\* view and the CSV endpoint answer with the same status (200, 400 or 404) and, when
\* 200, show the same records in the same order.
C26_ViewAgreesWithCsv ==
    last.kind = "view" =>
        LET csv == model_board_paged(last.req, last.seen)
        IN  /\ last.status \in {200, 400, 404}
            /\ last.status = csv.status
            /\ last.status = 200 =>
                  csv.text.rows = [i \in 1..Len(last.result) |-> ModelRow(last.result[i])]

\* the view of page 2 at page size 2 showed two records
C26_Witness ==
    /\ last.kind = "view"
    /\ last.status = 200
    /\ last.req.page = 2
    /\ last.req.page_size = 2
    /\ Len(last.result) = 2

-----------------------------------------------------------------------------
(* C27: the links of the index *)

\* what the view answers when the link is followed on the board all_props: an index
\* link and a pager link carry no page_size, so the view's default applies
\* (and in the query string of the href a "+" stands for a space)
QueryValue(text) == [i \in 1..Len(text) |-> IF text[i] = "+" THEN " " ELSE text[i]]

Follow(link, all_props) ==
    LET q == BoardQuery(link.sport, QueryValue(link.tiers), link.page, DefaultPageSize)
    IN  IF q.tier_set.err THEN ViewOutcome(400, <<>>, 0, NoLink, NoLink)
        ELSE model_board_view_html(q, all_props)

\* the live records of the slug and tier
LiveOf(all_props, slug, t) ==
    SelectSeq(all_props, LAMBDA p : get_prop_sport_slug(p) = slug /\ p.tier = t)

\* the links that the index listed for the slug and tier
LinksOf(links, slug, t) == {l \in links : l.sport = slug /\ l.tiers = t}

\* whether the index query covers the slug and tier
Covers(q, slug, t) ==
    /\ q.sport = <<>> \/ Lower(q.sport) = slug
    /\ q.tier = <<>> \/ Strip(Lower(q.tier)) = t

\* the records shown on pages 1..n of the slug and tier, one page after the other
RECURSIVE ShownUpTo(_, _, _, _)
ShownUpTo(all_props, slug, t, n) ==
    IF n = 0 THEN <<>>
    ELSE ShownUpTo(all_props, slug, t, n - 1) \o Follow(Link(slug, n, t), all_props).props

\* how often x occurs in list
Occurrences(list, x) == Cardinality({i \in 1..Len(list) : list[i] = x})

\* C27: /model-index lists for each (sport slug, tier) with c > 0 live records exactly
\* ceil(c / 150) page links; every listed link answers 200; and the records shown
\* across the linked pages of one (slug, tier) are exactly its c live records, each
\* once.
C27_IndexLinksExact ==
    last.kind = "index" =>
        \A i \in 1..Len(last.seen), t \in ALLOWED_TIERS :
            LET slug == get_prop_sport_slug(last.seen[i])
                live == LiveOf(last.seen, slug, t)
                c == Len(live)
                links == LinksOf(last.result, slug, t)
                shown == ShownUpTo(last.seen, slug, t, Ceil(c, IndexPageSize))
            IN  Covers(last.req, slug, t) /\ c > 0 =>
                    /\ links = {Link(slug, n, t) : n \in 1..Ceil(c, IndexPageSize)}
                    /\ \A l \in links : Follow(l, last.seen).status = 200
                    /\ Len(shown) = c
                    /\ \A j \in 1..c : Occurrences(shown, live[j]) = 1

-----------------------------------------------------------------------------
(* C28: the pager links of the view *)

\* C28: whenever the view renders a 'Next page' or 'Prev page' link, following that
\* link against the same board and clock answers 200, for every page_size the
\* request may carry, and a 'Next page' link is rendered exactly when
\* page < total_pages.
C28_PagerLinksInRange ==
    last.kind = "view" /\ last.status = 200 =>
        /\ last.next.some => Follow(last.next, last.seen).status = 200
        /\ last.prev.some => Follow(last.prev, last.seen).status = 200
        /\ last.next.some <=> last.req.page < last.total

-----------------------------------------------------------------------------
(* C29: an upload that normalizes to no record *)

\* uploads that fill the board under the slugs nba, go and extras, and uploads for
\* the same sports whose payload holds no entry or only entries that are skipped
ClearRequests ==
    [sport : {<<"N", "B", "A">>}, sport_label : {None},
     raw : {PrizePicksRaw(<<rowA, rowB>>), PrizePicksRaw(<<>>), UnderdogRaw(<<>>),
            UnderdogRaw(<<rowNoPlayer>>)}]
        \cup [sport : {extras}, sport_label : {Some(<<" ", "G", "o", "!">>)},
              raw : {UnderdogRaw(<<rowV>>), UnderdogRaw(<<>>), PrizePicksRaw(<<>>)}]
        \cup [sport : {extras}, sport_label : {None, Some(<<" ">>)},
              raw : {PrizePicksRaw(<<rowC>>), PrizePicksRaw(<<>>)}]

ClearCalls == {Handled(req) : req \in ClearRequests}

ClearNext ==
    \/ \E u \in Uploaders, call \in ClearCalls : Alone(u) /\ UploadBegin(u, call)
    \/ \E u \in Uploaders : UploadRecount(u)
    \/ \E p \in Slots : SaveOpen(p)
    \/ \E p \in Slots : SavePrimary(p)
    \/ \E p \in Slots : SaveBackup(p)
    \/ Tick

\* one upload at a time, among them uploads that normalize to no record
ClearSpec == Init /\ [][ClearNext]_vars

\* the registry key that the request selects, or the slug of its extras label (of
\* the default label "Extras" when it has none)
SelectedSlug(req) ==
    IF Lower(req.sport) = extras
    THEN sport_slug_from_label(IF Strip(OrEmpty(req.sport_label)) = <<>> THEN ExtrasName
                               ELSE Strip(OrEmpty(req.sport_label)))
    ELSE Lower(req.sport)

\* the records of the list that are stored under another slug, in their order
OfOtherSlugs(list, slug) == SelectSeq(list, LAMBDA p : get_prop_sport_slug(p) # slug)

\* the accepted uploads whose payload normalizes to no record
EmptyCalls == {c \in ClearCalls : ~c.rejected /\ ~c.crashed /\ c.new_props = <<>>}

\* C29: an accepted upload whose payload normalizes to zero records still clears its
\* sport: the board it saves to both files is the stored board without the records
\* whose slug is the selected registry key (or the slug of the extras label), the
\* records of other slugs kept in their order, and its response reports count = 0.
C29_EmptyUploadClears ==
    [][\A u \in Uploaders :
          /\ \A c \in EmptyCalls :
                UploadBegin(u, c) =>
                    /\ th'[u].phase = "merge"
                    /\ th'[u].batch = <<>>
                    /\ th'[u].buf = OfOtherSlugs(Stored, SelectedSlug(c.req))
          /\ th[u].phase = "merge" /\ th[u].batch = <<>> /\ SaveBackup(u) =>
                /\ primary' = Holding(th[u].buf)
                /\ backup' = Holding(th[u].buf)
                /\ \A i \in 1..Len(Stored') : get_prop_sport_slug(Stored'[i]) # th[u].slug
          /\ th[u].batch = <<>> /\ th[u].pc \in {"recount", "b_write"} /\ th'[u].pc = "idle" =>
                /\ last'.kind = "upload"
                /\ last'.status = 200
                /\ last'.count = 0]_vars

\* an upload that normalized to no record has saved its board: the board it loaded
\* held records of its slug and of another slug, and both files now hold the records
\* of the other slug only
C29_Witness ==
    \E u \in Uploaders :
        /\ th[u].pc = "recount"
        /\ th[u].batch = <<>>
        /\ \E i \in 1..Len(th[u].loaded) : get_prop_sport_slug(th[u].loaded[i]) = th[u].slug
        /\ Stored # <<>>
        /\ Stored = OfOtherSlugs(th[u].loaded, th[u].slug)
        /\ backup = primary

-----------------------------------------------------------------------------
(* C30: what a read of the current board writes and returns *)

\* a is b with some of its elements left out
RECURSIVE IsSubList(_, _)
IsSubList(a, b) ==
    IF a = <<>> THEN TRUE
    ELSE IF b = <<>> THEN FALSE
    ELSE IF Head(a) = Head(b) THEN IsSubList(Tail(a), Tail(b))
    ELSE IsSubList(a, Tail(b))

\* slot p calls get_current_props: for GET /props.json, or for the total of an upload
ReadStep(p) == (p \in Readers /\ ReadBegin(p)) \/ (p \in Uploaders /\ UploadRecount(p))

\* slot p is inside the save_props call of get_current_props
PruneSave(p) == th[p].phase = "prune" /\ th[p].pc \in {"p_open", "p_write", "b_open", "b_write"}

\* C30: a read of the current board that drops no record leaves the primary and the
\* backup file unchanged and returns the list it loaded, also when that list came
\* from the backup because the primary is missing or unparseable; a read writes only
\* a list from which it dropped a record; and every read returns a sub-list of the
\* list it loaded.
C30_ReadsWriteOnlyWhenPruning ==
    [][\A p \in Slots :
          /\ ReadStep(p) =>
                /\ UNCHANGED <<primary, backup>>
                /\ IF Unexpired(Stored, clock) = Stored
                   THEN /\ th'[p].pc = "idle"
                        /\ p \in Readers => last' = ReadOk(p, clock, Stored)
                   ELSE /\ th'[p].phase = "prune"
                        /\ th'[p].loaded = Stored
                        /\ th'[p].buf = Unexpired(Stored, clock)
          /\ PruneSave(p) =>
                /\ th[p].buf # th[p].loaded
                /\ IsSubList(th[p].buf, th[p].loaded)
          /\ PruneSave(p) /\ SaveBackup(p) /\ p \in Readers =>
                /\ last'.kind = "read"
                /\ IsSubList(last'.result, th[p].loaded)
          /\ <<primary, backup>>' # <<primary, backup>> =>
                \E q \in Slots : PruneSave(q) \/ th[q].phase = "merge"]_vars

\* a read found the primary file missing or unparseable, returned the records of the
\* backup file, and left the primary file as it was
C30_Witness ==
    /\ Quiescent
    /\ last.kind = "read"
    /\ last.status = 200
    /\ primary.st # "ok"
    /\ backup.st = "ok"
    /\ last.result # <<>>
    /\ last.result = backup.data

====
